---- MODULE Spec2Model ----
(***************************************************************************)
(* PL/Proxy remote execution engine (src/src/execute.c).                   *)
(*                                                                         *)
(* One cluster, its connection list and one executor.  plproxy_exec is     *)
(* modelled step by step: reset, tagging/splitting, parameter binding,     *)
(* priming of every tagged connection, the poll loop (build, wait,         *)
(* dispatch, recheck), the result review and the PG_CATCH handler.         *)
(* Everything libpq, poll(2), SPI or the clock decides is an input drawn   *)
(* with \E at the step that consults it.                                   *)
(***************************************************************************)
EXTENDS Integers, Sequences, FiniteSets, TLC

\* ------------------------------------------------------------------ bounds
MaxTime == 3        \* the clock (seconds) runs from 0 to MaxTime
MaxLen == 2         \* longest split array
MaxHashRows == 2    \* most rows one hash query returns
MaxTuples == 1      \* most rows in one remote tuple result
MaxFrameTime == 1   \* the clock of the two-connection calls that arm one

\* ------------------------------------------------------- program constants
PLPROXY_IDLE_CONN_CHECK == 2
Limb == 256 * 256        \* a uint32 is kept as two 16-bit limbs

C_NONE == "C_NONE"
C_CONNECT_WRITE == "C_CONNECT_WRITE"
C_CONNECT_READ == "C_CONNECT_READ"
C_READY == "C_READY"
C_QUERY_WRITE == "C_QUERY_WRITE"
C_QUERY_READ == "C_QUERY_READ"
C_DONE == "C_DONE"
ConnState == {C_NONE, C_CONNECT_WRITE, C_CONNECT_READ, C_READY,
              C_QUERY_WRITE, C_QUERY_READ, C_DONE}

R_HASH == "R_HASH"
R_ALL == "R_ALL"
R_ANY == "R_ANY"
R_EXACT == "R_EXACT"

PGRES_TUPLES_OK == "PGRES_TUPLES_OK"
PGRES_COMMAND_OK == "PGRES_COMMAND_OK"
PGRES_FATAL_ERROR == "PGRES_FATAL_ERROR"
PGRES_EMPTY_QUERY == "PGRES_EMPTY_QUERY"

ERRCODE_QUERY_CANCELED == "57014"
ERRCODE_INTERNAL_ERROR == "XX000"

NULL == "NULL"                              \* a NULL handle
NullRes == [status |-> "NULL", ntuples |-> 0]  \* a NULL PGresult pointer
NullPtr == <<>>                             \* a NULL array pointer

\* --------------------------------------------------------------- helpers
RECURSIVE BitAnd(_, _)
BitAnd(a, b) ==
    IF a = 0 \/ b = 0 THEN 0
    ELSE (a % 2) * (b % 2) + 2 * BitAnd(a \div 2, b \div 2)

\* assignment of a signed integer to a uint32 (two's complement)
ToUint32(v) == [hi |-> (v \div Limb) % Limb, lo |-> v % Limb]

\* a & b on uint32 values; the result as a number (b is below 2^31)
And32(a, b) == BitAnd(a.hi, b.hi) * Limb + BitAnd(a.lo, b.lo)

Ok(c) == [conn |-> c, err |-> "none"]
Fail(c, e) == [conn |-> c, err |-> e]

VARIABLES
    cluster,            \* part_count, part_mask, part_map, conn_count, config
    busy,               \* cluster->busy
    ret_total,          \* cluster->ret_total
    conn_list,          \* cluster->conn_list, 1..conn_count
    func,               \* the function and arguments of the call in progress
    pc,                 \* position of the executor
    i,                  \* loop index over conn_list
    pending,            \* remote_execute: pending
    pfd,                \* poll_conns: pfd_cache[0..numfds)
    pf,                 \* poll_conns: cursor into pfd
    err,                \* message of the error being propagated
    errcode,            \* its SQLSTATE
    exit,               \* how the last plproxy_exec ended
    now,                \* wall clock, seconds
    QueryCancelPending, \* host cancellation flag
    cancel_log          \* PQgetCancel/PQcancel attempts of the current abort

vars == <<cluster, busy, ret_total, conn_list, func, pc, i, pending, pfd, pf,
          err, errcode, exit, now, QueryCancelPending, cancel_log>>

Conns == 1..cluster.conn_count
Armed(c) == conn_list[c].run_tag # 0

\* ProxyConnection after cluster load
NewConn ==
    [state |-> C_NONE, db |-> NULL, res |-> NullRes, pos |-> 0,
     connect_time |-> 0, query_time |-> 0, same_ver |-> FALSE,
     tuning |-> FALSE, run_tag |-> 0, split_params |-> NullPtr, bstate |-> NullPtr,
     resultformat |-> 0, params |-> <<>>]

\* the return type of a function: a scalar with or without a binary input
\* function, or a composite whose columns all have one or not
RetTypes == [scalar : BOOLEAN, has_recv : BOOLEAN, use_binary : BOOLEAN]
TextScalar == [scalar |-> TRUE, has_recv |-> FALSE, use_binary |-> FALSE]

NoFunc == [run_type |-> "none", ret |-> TextScalar]

\* ------------------------------------------------- connection-level steps
\* Each returns [conn, err]: the connection afterwards and the message of the
\* error raised ("none" when the step returns).

\* flush_connection: res is what PQflush returned
flush_connection(conn, res) ==
    IF res > 0 THEN Ok([conn EXCEPT !.state = C_QUERY_WRITE])
    ELSE IF res = 0 THEN Ok([conn EXCEPT !.state = C_QUERY_READ])
    ELSE Fail(conn, "PQflush")

\* A version string is the sequence of its characters; the character at
\* position k (from 1), NUL at and past the end.
NUL == ""
CharAt(s, k) == IF k <= Len(s) THEN s[k] ELSE NUL

\* cmp_branch, the loop from position k on with `dot` dots passed
RECURSIVE CmpFrom(_, _, _, _)
CmpFrom(this, that, k, dot) ==
    LET a == CharAt(this, k)
        b == CharAt(that, k)
    IN  IF a = NUL /\ b = NUL THEN TRUE
        ELSE IF dot > 0 /\ a = "." /\ b = NUL THEN TRUE
        ELSE IF dot > 0 /\ b = "." /\ a = NUL THEN TRUE
        ELSE IF a # b THEN FALSE
        ELSE IF a = "." /\ dot > 0 THEN TRUE
        ELSE CmpFrom(this, that, k + 1, IF a = "." THEN dot + 1 ELSE dot)

\* variant: the two strings are compared whole
cmp_branch_exact(this, that) == this = that

\* cmp_branch
cmp_branch(this, that) == CmpFrom(this, that, 1, 0)

\* tune_connection: io.server_version is what the server reports,
\* cluster.pg_version the PG_VERSION of the local build, io.enc_differs
\* whether client_encoding differs from the local encoding
tune_connection(conn, io) ==
    LET c1 == [conn EXCEPT !.same_ver = cmp_branch(io.server_version, cluster.pg_version)]
        sql == io.enc_differs
    IN  IF sql /\ c1.tuning THEN Fail(c1, "does not seem to apply")
        ELSE IF sql THEN
            LET c2 == [c1 EXCEPT !.tuning = TRUE, !.state = C_QUERY_WRITE]
            IN  IF ~io.send_ok THEN Fail(c2, "PQsendQuery")
                ELSE flush_connection(c2, io.flush)
        ELSE Ok([c1 EXCEPT !.tuning = FALSE])

\* variant: the remote version is not looked at
binary_result_any_version(cf, conn, f) ==
    IF ~cf.disable_binary
    THEN IF f.ret.scalar THEN (IF f.ret.has_recv THEN 1 ELSE 0)
         ELSE (IF f.ret.use_binary THEN 1 ELSE 0)
    ELSE 0

\* send_query: the result format asked for, 0 text, 1 binary
binary_result(cf, conn, f) ==
    IF ~cf.disable_binary /\ conn.same_ver
    THEN IF f.ret.scalar THEN (IF f.ret.has_recv THEN 1 ELSE 0)
         ELSE (IF f.ret.use_binary THEN 1 ELSE 0)
    ELSE 0

\* send_query; resultformat is the last argument of PQsendQueryParams
send_query(conn, t, io) ==
    LET c1 == [conn EXCEPT !.query_time = t]
        r == tune_connection(c1, io)
    IN  IF r.err # "none" \/ r.conn.tuning THEN r
        ELSE LET c2 == [r.conn EXCEPT !.state = C_QUERY_WRITE,
                                      !.resultformat =
                                          binary_result(cluster.config, r.conn, func)]
             IN  IF ~io.send_ok THEN Fail(c2, "PQsendQueryParams")
                 ELSE flush_connection(c2, io.flush)

\* variant: the age of the connection is not looked at
check_old_conn_any_age(conn, t, cf, io) ==
    IF ~io.status_ok THEN "false"
    ELSE IF t - conn.query_time < PLPROXY_IDLE_CONN_CHECK THEN "true"
    ELSE IF io.poll > 0 THEN "false"
    ELSE IF io.poll < 0 THEN "check_old_conn: select failed"
    ELSE "true"

\* check_old_conn: "true", "false" (drop the connection) or an error.
\* io.status_ok is PQstatus == CONNECTION_OK, io.poll the result of the
\* zero-timeout poll (EINTR retries folded into the final result).
check_old_conn(conn, t, cf, io) ==
    IF ~io.status_ok THEN "false"
    ELSE IF cf.connection_lifetime > 0
            /\ t - conn.connect_time >= cf.connection_lifetime THEN "false"
    ELSE IF t - conn.query_time < PLPROXY_IDLE_CONN_CHECK THEN "true"
    ELSE IF io.poll > 0 THEN "false"
    ELSE IF io.poll < 0 THEN "check_old_conn: select failed"
    ELSE "true"

\* the tail of prepare_conn: launch a new connection
launch_conn(conn, t, io) ==
    LET c1 == [conn EXCEPT !.connect_time = t]
    IN  IF io.start = "nomem" THEN Fail([c1 EXCEPT !.db = NULL], "No memory for PGconn")
        ELSE LET c2 == [c1 EXCEPT !.db = "open", !.state = C_CONNECT_WRITE]
             IN  IF io.start = "bad" THEN Fail(c2, "PQconnectStart") ELSE Ok(c2)

\* the drop of a rotten connection in prepare_conn
drop_conn(conn) ==
    [conn EXCEPT !.db = NULL, !.state = C_NONE, !.tuning = FALSE]

\* variant: a connection found in the middle of I/O is kept as it is
prepare_conn_keeps_io(conn, t, cf, io) ==
    LET c1 == IF conn.state = C_DONE THEN [conn EXCEPT !.state = C_READY] ELSE conn
    IN  IF c1.state = C_READY THEN
            LET chk == check_old_conn(c1, t, cf, io)
            IN  IF chk = "true" THEN Ok(c1)
                ELSE IF chk = "false" THEN launch_conn(drop_conn(c1), t, io)
                ELSE Fail(c1, chk)
        ELSE IF c1.state = C_NONE THEN launch_conn(c1, t, io)
        ELSE Ok(c1)

\* prepare_conn
prepare_conn(conn, t, cf, io) ==
    LET c1 == IF conn.state = C_DONE THEN [conn EXCEPT !.state = C_READY] ELSE conn
    IN  IF c1.state = C_READY THEN
            LET chk == check_old_conn(c1, t, cf, io)
            IN  IF chk = "true" THEN Ok(c1)
                ELSE IF chk = "false" THEN launch_conn(drop_conn(c1), t, io)
                ELSE Fail(c1, chk)
        ELSE IF c1.state = C_NONE THEN launch_conn(c1, t, io)
        ELSE launch_conn(drop_conn(c1), t, io)

\* variant: the end of the results always leaves the connection Done
another_result_always_done(conn, r) ==
    IF r = NullRes THEN
        [conn |-> [conn EXCEPT !.state = C_DONE], err |-> "none", more |-> FALSE]
    ELSE IF r.status = PGRES_TUPLES_OK /\ conn.res = NullRes THEN
        [conn |-> [conn EXCEPT !.res = r], err |-> "none", more |-> TRUE]
    ELSE IF r.status = PGRES_COMMAND_OK THEN
        [conn |-> conn, err |-> "none", more |-> TRUE]
    ELSE [conn |-> [conn EXCEPT !.res = r], err |-> "remote error", more |-> TRUE]

\* variant: a later tuple result replaces the one held
another_result_replaces_result(conn, r) ==
    IF r = NullRes THEN
        [conn |-> [conn EXCEPT !.state = IF conn.tuning THEN C_READY ELSE C_DONE],
         err |-> "none", more |-> FALSE]
    ELSE IF r.status = PGRES_TUPLES_OK THEN
        [conn |-> [conn EXCEPT !.res = r], err |-> "none", more |-> TRUE]
    ELSE IF r.status = PGRES_COMMAND_OK THEN
        [conn |-> conn, err |-> "none", more |-> TRUE]
    ELSE IF r.status = PGRES_FATAL_ERROR THEN
        [conn |-> [conn EXCEPT !.res = r], err |-> "remote error", more |-> TRUE]
    ELSE
        [conn |-> [conn EXCEPT !.res = r], err |-> "Unexpected result type", more |-> TRUE]

\* variant: the connection is Done as soon as it holds a result
another_result_done_early(conn, r) ==
    IF r = NullRes THEN
        [conn |-> [conn EXCEPT !.state = IF conn.tuning THEN C_READY ELSE C_DONE],
         err |-> "none", more |-> FALSE]
    ELSE IF r.status = PGRES_TUPLES_OK THEN
        IF conn.res # NullRes
        THEN [conn |-> conn, err |-> "double result?", more |-> TRUE]
        ELSE [conn |-> [conn EXCEPT !.res = r, !.state = C_DONE],
              err |-> "none", more |-> TRUE]
    ELSE IF r.status = PGRES_COMMAND_OK THEN
        [conn |-> conn, err |-> "none", more |-> TRUE]
    ELSE IF r.status = PGRES_FATAL_ERROR THEN
        [conn |-> [conn EXCEPT !.res = r], err |-> "remote error", more |-> TRUE]
    ELSE
        [conn |-> [conn EXCEPT !.res = r], err |-> "Unexpected result type", more |-> TRUE]

\* another_result: r is what PQgetResult returned, NullRes or [status, ntuples].
\* more is the return value (true: there may be more results).
another_result(conn, r) ==
    IF r = NullRes THEN
        [conn |-> [conn EXCEPT !.state = IF conn.tuning THEN C_READY ELSE C_DONE],
         err |-> "none", more |-> FALSE]
    ELSE IF r.status = PGRES_TUPLES_OK THEN
        IF conn.res # NullRes
        THEN [conn |-> conn, err |-> "double result?", more |-> TRUE]
        ELSE [conn |-> [conn EXCEPT !.res = r], err |-> "none", more |-> TRUE]
    ELSE IF r.status = PGRES_COMMAND_OK THEN
        [conn |-> conn, err |-> "none", more |-> TRUE]
    ELSE IF r.status = PGRES_FATAL_ERROR THEN
        [conn |-> [conn EXCEPT !.res = r], err |-> "remote error", more |-> TRUE]
    ELSE
        [conn |-> [conn EXCEPT !.res = r], err |-> "Unexpected result type", more |-> TRUE]

\* variant: a timeout of 0 is a limit of 0 seconds
check_timeouts_zero_is_limit(conn, cf, t) ==
    IF conn.state \in {C_CONNECT_READ, C_CONNECT_WRITE} THEN
        IF t - conn.connect_time <= cf.connect_timeout THEN "none"
        ELSE "connect timeout"
    ELSE IF conn.state \in {C_QUERY_READ, C_QUERY_WRITE} THEN
        IF t - conn.query_time <= cf.query_timeout THEN "none"
        ELSE "query timeout"
    ELSE "none"

\* check_timeouts: the error it raises, or "none"
check_timeouts(conn, cf, t) ==
    IF conn.state \in {C_CONNECT_READ, C_CONNECT_WRITE} THEN
        IF cf.connect_timeout <= 0 THEN "none"
        ELSE IF t - conn.connect_time <= cf.connect_timeout THEN "none"
        ELSE "connect timeout"
    ELSE IF conn.state \in {C_QUERY_READ, C_QUERY_WRITE} THEN
        IF cf.query_timeout <= 0 THEN "none"
        ELSE IF t - conn.query_time <= cf.query_timeout THEN "none"
        ELSE "query timeout"
    ELSE "none"

\* variant: the reset forgets run_tag
clean_conn_keeps_run_tag(conn) ==
    [conn EXCEPT !.res = NullRes, !.pos = 0, !.bstate = NullPtr]

\* variant: the reset forgets the held result
clean_conn_keeps_res(conn) ==
    [conn EXCEPT !.pos = 0, !.run_tag = 0, !.bstate = NullPtr]

\* variant: the reset forgets the result position
clean_conn_keeps_pos(conn) ==
    [conn EXCEPT !.res = NullRes, !.run_tag = 0, !.bstate = NullPtr]

\* variant: the cleanup also makes a Done connection Ready again
clean_conn_resets_done(conn) ==
    [conn EXCEPT !.res = NullRes, !.pos = 0, !.run_tag = 0, !.bstate = NullPtr,
                 !.state = IF conn.state = C_DONE THEN C_READY ELSE conn.state]

\* plproxy_clean_results, on one connection
clean_conn(conn) ==
    [conn EXCEPT !.res = NullRes, !.pos = 0, !.run_tag = 0, !.bstate = NullPtr]

\* plproxy_clean_results, on conn_list
plproxy_clean_results(conns) ==
    [c \in DOMAIN conns |-> clean_conn(conns[c])]

\* ------------------------------------------------------ tagging, splitting
\* A call is a record f:
\*   run_type, exact_nr, fn_retset, new_split   from the function
\*   split_args[col]                            IS_SPLIT_ARG
\*   args[col] = [isnull, ndim, elems]          the caller's arguments
\*   htype                                      type of the hash column(s)
\*   hashres[row]   rows the hash query returns when run for element `row`
\*                  (hashres[1] for a call without split), each [isnull, v]
\*   rand[row]      what random() returns at that invocation
\*   splitrows      rows [idx, hash] the one-query split hash returns
\*   arg_lookup[n]  remote_sql->arg_lookup: the argument placeholder n stands for
IS_SPLIT_ARG(f, col) == f.split_args[col]
ArgCount(f) == Len(f.split_args)

IntType(t) == t \in {"int2", "int4", "int8"}

\* hashval &= cluster->part_mask
MaskHash(v) == And32(ToUint32(v), ToUint32(cluster.part_mask))

\* (int16) of a datum: its low 16 bits as a signed number
DatumGetInt16(v) ==
    LET l == v % Limb
    IN  IF l >= Limb \div 2 THEN l - Limb ELSE l

\* variant: a negative hash is stored as its magnitude
DatumGetUint32_magnitude(val, htype) ==
    LET n == IF htype = "int2" THEN DatumGetInt16(val.v) ELSE val.v
    IN  ToUint32(IF n < 0 THEN 0 - n ELSE n)

\* uint32 hashval = DatumGetInt32(val), DatumGetInt64(val) or
\* DatumGetInt16(val). A hash datum is [isnull, v, hi]: v its low 32 bits as
\* a signed number, hi the 32 bits above them (the sign extension, for int2
\* and int4). The assignment to uint32 keeps the low 32 bits.
DatumGetUint32(val, htype) ==
    IF htype = "int2" THEN ToUint32(DatumGetInt16(val.v)) ELSE ToUint32(val.v)

\* the partition-map index of a hash datum
MaskDatum(val, htype) ==
    And32(DatumGetUint32(val, htype), ToUint32(cluster.part_mask))

\* variant: a connection keeps the first tag it is given
SetTag_keeps_first(conns, c, tag) ==
    IF conns[c].run_tag # 0 THEN conns ELSE [conns EXCEPT ![c].run_tag = tag]

SetTag(conns, c, tag) == [conns EXCEPT ![c].run_tag = tag]

\* tag_hash_partitions, the loop over the rows from row k on
RECURSIVE TagHashRows(_, _, _, _, _)
TagHashRows(conns, rows, htype, tag, k) ==
    IF k > Len(rows) THEN [conns |-> conns, err |-> "none"]
    ELSE IF rows[k].isnull
        THEN [conns |-> conns, err |-> "Hash function returned NULL"]
    ELSE IF ~IntType(htype)
        THEN [conns |-> conns, err |-> "Hash result must be int2, int4 or int8"]
    ELSE TagHashRows(SetTag(conns, cluster.part_map[MaskDatum(rows[k], htype)], tag),
                     rows, htype, tag, k + 1)

\* variant: any number of hash rows is accepted
tag_hash_partitions_any_count(conns, f, tag, row) ==
    TagHashRows(conns, f.hashres[row], f.htype, tag, 1)

\* variant: no row at all is refused, set-returning or not
tag_hash_partitions_refuses_no_rows(conns, f, tag, row) ==
    LET rows == f.hashres[row]
        r == TagHashRows(conns, rows, f.htype, tag, 1)
    IN  IF r.err # "none" THEN r
        ELSE IF Len(rows) = 0 \/ (Len(rows) > 1 /\ ~f.fn_retset)
            THEN [conns |-> r.conns,
                  err |-> "Only set-returning function allows hashcount <> 1"]
        ELSE r

\* tag_hash_partitions
tag_hash_partitions(conns, f, tag, row) ==
    LET rows == f.hashres[row]
        r == TagHashRows(conns, rows, f.htype, tag, 1)
    IN  IF r.err # "none" THEN r
        ELSE IF (Len(rows) = 0 \/ Len(rows) > 1) /\ ~f.fn_retset
            THEN [conns |-> r.conns,
                  err |-> "Only set-returning function allows hashcount <> 1"]
        ELSE r

\* variant: RUN ON ALL tags the connection of partition 0 only
tag_run_on_partitions_first_slot(conns, f, tag, row) ==
    IF f.run_type = R_ALL
    THEN [conns |-> SetTag(conns, cluster.part_map[0], tag), err |-> "none"]
    ELSE tag_hash_partitions(conns, f, tag, row)

\* variant: RUN ON EXACT wraps the partition number as a hash is wrapped
tag_run_on_partitions_exact_masked(conns, f, tag, row) ==
    IF f.run_type = R_EXACT
    THEN [conns |-> SetTag(conns, cluster.part_map[MaskHash(f.exact_nr)], tag),
          err |-> "none"]
    ELSE tag_hash_partitions(conns, f, tag, row)

\* tag_run_on_partitions
tag_run_on_partitions(conns, f, tag, row) ==
    IF f.run_type = R_HASH THEN tag_hash_partitions(conns, f, tag, row)
    ELSE IF f.run_type = R_ALL THEN
        [conns |-> [c \in DOMAIN conns |->
                       IF \E p \in 0..(cluster.part_count - 1) : cluster.part_map[p] = c
                       THEN [conns[c] EXCEPT !.run_tag = tag] ELSE conns[c]],
         err |-> "none"]
    ELSE IF f.run_type = R_EXACT THEN
        IF f.exact_nr < 0 \/ f.exact_nr >= cluster.part_count
        THEN [conns |-> conns, err |-> "part number out of range"]
        ELSE [conns |-> SetTag(conns, cluster.part_map[f.exact_nr], tag), err |-> "none"]
    ELSE IF f.run_type = R_ANY THEN
        [conns |-> SetTag(conns, cluster.part_map[MaskHash(f.rand[row])], tag),
         err |-> "none"]
    ELSE [conns |-> conns, err |-> "uninitialized run_type"]

\* split_value: add the elements of `row` (1-based) to the connection's arrays

\* variant: only the first element routed to a connection is accumulated
split_value_first_only(conn, f, row) ==
    IF conn.bstate # NullPtr THEN conn
    ELSE [conn EXCEPT !.bstate =
            [col \in 1..ArgCount(f) |->
                IF IS_SPLIT_ARG(f, col) THEN <<f.args[col].elems[row]>> ELSE <<>>]]

\* split_value
split_value(conn, f, row) ==
    LET b0 == IF conn.bstate = NullPtr
              THEN [col \in 1..ArgCount(f) |-> <<>>] ELSE conn.bstate
    IN  [conn EXCEPT !.bstate =
            [col \in 1..ArgCount(f) |->
                IF IS_SPLIT_ARG(f, col)
                THEN Append(b0[col], f.args[col].elems[row]) ELSE b0[col]]]

\* get_int: the error it raises for a value, or "none"
get_int_err(val, oid) ==
    IF val.isnull THEN "expected not-NULL value"
    ELSE IF ~IntType(oid) THEN "expected int arg"
    ELSE "none"

\* new_split_args, the loop over the rows from row k on
RECURSIVE NewSplitRows(_, _, _)
NewSplitRows(conns, f, k) ==
    IF k > Len(f.splitrows) THEN [conns |-> conns, err |-> "none"]
    ELSE LET row == f.splitrows[k]
             e1 == get_int_err(row.idx, f.htype)
             e2 == get_int_err(row.hash, f.htype)
             idx == row.idx.v
             c == cluster.part_map[MaskDatum(row.hash, f.htype)]
         IN  IF e1 # "none" THEN [conns |-> conns, err |-> e1]
             ELSE IF e2 # "none" THEN [conns |-> conns, err |-> e2]
             ELSE IF ToUint32(conns[c].run_tag) = ToUint32(idx)
                THEN NewSplitRows(conns, f, k + 1)
             ELSE NewSplitRows(
                    [conns EXCEPT ![c] = split_value([conns[c] EXCEPT !.run_tag = idx], f, idx)],
                    f, k + 1)

\* new_split_args
new_split_args(conns, f) == NewSplitRows(conns, f, 1)

\* old_split_args, the loop over the rows from `row` on (my_tag = row)
RECURSIVE OldSplitRows(_, _, _, _)
OldSplitRows(conns, f, len, row) ==
    IF row > len THEN [conns |-> conns, err |-> "none"]
    ELSE LET r == tag_run_on_partitions(conns, f, row, row)
         IN  IF r.err # "none" THEN r
             ELSE OldSplitRows(
                    [c \in DOMAIN conns |->
                        IF r.conns[c].run_tag # row THEN r.conns[c]
                        ELSE split_value(r.conns[c], f, row)],
                    f, len, row + 1)

\* old_split_args
old_split_args(conns, f, len) == OldSplitRows(conns, f, len, 1)

ElemCount(a) == IF a.isnull THEN 0 ELSE Len(a.elems)
SplitCols(f) == {col \in 1..ArgCount(f) : IS_SPLIT_ARG(f, col)}

\* variant: arrays of any dimension pass
RECURSIVE CheckSplitArrays_any_dimension(_, _, _)
CheckSplitArrays_any_dimension(f, col, len) ==
    IF col > ArgCount(f) THEN "none"
    ELSE IF ~IS_SPLIT_ARG(f, col) THEN CheckSplitArrays_any_dimension(f, col + 1, len)
    ELSE IF len < 0
        THEN CheckSplitArrays_any_dimension(f, col + 1, ElemCount(f.args[col]))
    ELSE IF ElemCount(f.args[col]) # len
        THEN "split arrays must be of identical lengths"
    ELSE CheckSplitArrays_any_dimension(f, col + 1, len)

\* prepare_and_tag_partitions, the checks of the split arrays: the error
\* raised, or "none"
RECURSIVE CheckSplitArrays(_, _, _)
CheckSplitArrays(f, col, len) ==
    IF col > ArgCount(f) THEN "none"
    ELSE IF ~IS_SPLIT_ARG(f, col) THEN CheckSplitArrays(f, col + 1, len)
    ELSE IF ~f.args[col].isnull /\ f.args[col].ndim > 1
        THEN "split multi-dimensional arrays are not supported"
    ELSE IF len < 0 THEN CheckSplitArrays(f, col + 1, ElemCount(f.args[col]))
    ELSE IF ElemCount(f.args[col]) # len
        THEN "split arrays must be of identical lengths"
    ELSE CheckSplitArrays(f, col + 1, len)

\* split_array_len after the checks
SplitArrayLen(f) ==
    ElemCount(f.args[CHOOSE col \in SplitCols(f) : \A d \in SplitCols(f) : col <= d])

\* prepare_and_tag_partitions, the final copy of the accumulated arrays
MaterializeSplit(conns, f) ==
    [c \in DOMAIN conns |->
        IF conns[c].run_tag = 0 THEN conns[c]
        ELSE [conns[c] EXCEPT !.split_params =
                [col \in 1..ArgCount(f) |->
                    IF ~IS_SPLIT_ARG(f, col) THEN [isnull |-> TRUE, elems |-> <<>>]
                    ELSE [isnull |-> FALSE, elems |-> conns[c].bstate[col]]]]]

\* prepare_and_tag_partitions
prepare_and_tag_partitions(conns, f) ==
    LET chk == CheckSplitArrays(f, 1, -1)
    IN  IF chk # "none" THEN [conns |-> conns, err |-> chk]
        ELSE IF SplitCols(f) = {} THEN tag_run_on_partitions(conns, f, 1, 1)
        ELSE LET r == IF f.new_split THEN new_split_args(conns, f)
                      ELSE old_split_args(conns, f, SplitArrayLen(f))
             IN  IF r.err # "none" THEN r
                 ELSE [conns |-> MaterializeSplit(r.conns, f), err |-> "none"]

\* ------------------------------------------------------ parameter binding
\* One parameter of the remote query is [value, length, format]; a NULL
\* value pointer is NullPtr.
NullParam == [value |-> NullPtr, length |-> 0, format |-> 0]

\* a Datum: the caller's argument, or a connection's split array
ArgDatum(a) == [isnull |-> a.isnull, elems |-> a.elems]

\* plproxy_send_type (type.c): the value in its wire form, binary when bin
\* allows it, with the length and format PQsendQueryParams is to be given
plproxy_send_type(val, bin) ==
    IF bin THEN [value |-> <<"binary", val>>, length |-> 4 + Len(val.elems), format |-> 1]
    ELSE [value |-> <<"text", val>>, length |-> 0, format |-> 0]

Larger(a, b) == IF a >= b THEN a ELSE b

\* variant: placeholder n is taken to stand for argument n
prepare_query_parameters_by_position(conns, f, cf) ==
    LET bin == ~cf.disable_binary
        count == Len(f.arg_lookup)
        param(c, n) ==
            IF f.args[n].isnull THEN NullParam
            ELSE IF IS_SPLIT_ARG(f, n)
                THEN plproxy_send_type(conns[c].split_params[n], bin)
            ELSE plproxy_send_type(ArgDatum(f.args[n]), bin)
    IN  [c \in DOMAIN conns |->
            IF conns[c].run_tag = 0 THEN conns[c]
            ELSE [conns[c] EXCEPT !.params =
                    [n \in 1..count |-> param(c, IF n <= ArgCount(f) THEN n ELSE 1)]]]

\* prepare_query_parameters: param_values, param_lengths and param_formats of
\* every tagged connection; the entries past the last placeholder are left
\* as they are
prepare_query_parameters(conns, f, cf) ==
    LET bin == ~cf.disable_binary
        count == Len(f.arg_lookup)
        \* the conversion of a fixed parameter, made once for all partitions
        fixed_param(idx) ==
            IF ~IS_SPLIT_ARG(f, idx) /\ ~f.args[idx].isnull
            THEN plproxy_send_type(ArgDatum(f.args[idx]), bin) ELSE NullParam
        param(c, n) ==
            LET idx == f.arg_lookup[n]
            IN  IF f.args[idx].isnull THEN NullParam
                ELSE IF IS_SPLIT_ARG(f, idx)
                    THEN plproxy_send_type(conns[c].split_params[idx], bin)
                ELSE fixed_param(idx)
    IN  [c \in DOMAIN conns |->
            IF conns[c].run_tag = 0 THEN conns[c]
            ELSE [conns[c] EXCEPT !.params =
                    [n \in 1..Larger(count, Len(conns[c].params)) |->
                        IF n <= count THEN param(c, n) ELSE conns[c].params[n]]]]

\* ------------------------------------------------------------ the executor
IoState(st) == st \in {C_CONNECT_READ, C_CONNECT_WRITE, C_QUERY_READ, C_QUERY_WRITE}

\* what libpq and poll(2) may answer while a connection is prepared or sent to
SendIo ==
    [status_ok : BOOLEAN, poll : {-1, 0, 1}, start : {"ok", "nomem", "bad"},
     enc_differs : BOOLEAN, server_version : cluster.server_versions, send_ok : BOOLEAN, flush : {-1, 0, 1}]

\* the answers that matter when only send_query runs
NoIo ==
    [status_ok |-> TRUE, poll |-> 0, start |-> "ok", enc_differs |-> FALSE,
     server_version |-> CHOOSE v \in cluster.server_versions : TRUE, send_ok |-> TRUE, flush |-> 0]
QueryIo == {io \in SendIo : io.status_ok /\ io.poll = 0 /\ io.start = "ok"}

\* what PQgetResult may return
Results ==
    {NullRes} \cup [status : {PGRES_TUPLES_OK}, ntuples : 0..MaxTuples]
    \cup [status : {PGRES_COMMAND_OK, PGRES_FATAL_ERROR, PGRES_EMPTY_QUERY}, ntuples : {0}]

\* what PQgetResult may return on connection conn: the tuning query is a list
\* of SET statements, which give command results and never give tuples
ResultsFor(conn) ==
    IF conn.tuning THEN {r \in Results : r.status # PGRES_TUPLES_OK} ELSE Results

\* the SQLSTATE plproxy_error() raises: an internal error, never a cancel
plproxy_error_code == ERRCODE_INTERNAL_ERROR

\* an error is thrown: control passes to PG_CATCH of plproxy_exec
Raise(msg, code) ==
    /\ pc' = "catch"
    /\ err' = msg
    /\ errcode' = code

\* variant: the entry does not set the busy flag
plproxy_exec_keeps_busy(f) ==
    /\ pc = "idle"
    /\ ret_total' = 0
    /\ conn_list' = plproxy_clean_results(conn_list)
    /\ func' = f
    /\ pc' = "tag"
    /\ exit' = "running"
    /\ err' = "none"
    /\ errcode' = "none"
    /\ UNCHANGED <<cluster, busy, i, pending, pfd, pf, now, QueryCancelPending, cancel_log>>

\* variant: the reset at entry leaves ret_total alone
plproxy_exec_keeps_ret_total(f) ==
    /\ pc = "idle"
    /\ busy' = TRUE
    /\ conn_list' = plproxy_clean_results(conn_list)
    /\ func' = f
    /\ pc' = "tag"
    /\ exit' = "running"
    /\ err' = "none"
    /\ errcode' = "none"
    /\ UNCHANGED <<cluster, ret_total, i, pending, pfd, pf, now, QueryCancelPending,
                   cancel_log>>

\* plproxy_exec, entry: busy flag, then plproxy_clean_results
plproxy_exec(f) ==
    /\ pc = "idle"
    /\ busy' = TRUE
    /\ ret_total' = 0
    /\ conn_list' = plproxy_clean_results(conn_list)
    /\ func' = f
    /\ pc' = "tag"
    /\ exit' = "running"
    /\ err' = "none"
    /\ errcode' = "none"
    /\ UNCHANGED <<cluster, i, pending, pfd, pf, now, QueryCancelPending, cancel_log>>

\* plproxy_exec: prepare_and_tag_partitions(func, fcinfo)
TagPartitions ==
    /\ pc = "tag"
    /\ LET r == prepare_and_tag_partitions(conn_list, func)
       IN  /\ conn_list' = r.conns
           /\ IF r.err # "none" THEN Raise(r.err, plproxy_error_code)
              ELSE pc' = "bind" /\ UNCHANGED <<err, errcode>>
    /\ UNCHANGED <<cluster, busy, ret_total, func, i, pending, pfd, pf, exit, now,
                   QueryCancelPending, cancel_log>>

\* plproxy_exec: prepare_query_parameters(func, fcinfo); the arguments of the
\* call are not read after it
BindParameters ==
    /\ pc = "bind"
    /\ pc' = "prime"
    /\ i' = 1
    /\ pending' = 0
    /\ conn_list' = prepare_query_parameters(conn_list, func, cluster.config)
    /\ func' = [NoFunc EXCEPT !.ret = func.ret]
    /\ UNCHANGED <<cluster, busy, ret_total, pfd, pf, err, errcode, exit,
                   now, QueryCancelPending, cancel_log>>

\* remote_execute, first loop, connection i: prepare_conn and, if the
\* connection is ready, send_query
PrimeStep(c, io) ==
    LET r1 == prepare_conn(conn_list[c], now, cluster.config, io)
        r2 == IF r1.err = "none" /\ r1.conn.state = C_READY
              THEN send_query(r1.conn, now, io) ELSE r1
    IN  r2

\* variant: the first loop prepares every connection, tagged or not
PrimeConn_every_conn ==
    /\ pc = "prime"
    /\ i <= cluster.conn_count
    /\ \E io \in SendIo :
          LET r == PrimeStep(i, io)
          IN  /\ conn_list' = [conn_list EXCEPT ![i] = r.conn]
              /\ IF r.err # "none"
                 THEN Raise(r.err, plproxy_error_code) /\ UNCHANGED pending
                 ELSE /\ pending' = pending + 1
                      /\ pc' = IF i = cluster.conn_count THEN "loop" ELSE "prime"
                      /\ UNCHANGED <<err, errcode>>
    /\ i' = i + 1
    /\ UNCHANGED <<cluster, busy, ret_total, func, pfd, pf, exit, now,
                   QueryCancelPending, cancel_log>>

PrimeConn ==
    /\ pc = "prime"
    /\ i <= cluster.conn_count
    /\ IF ~Armed(i)
       THEN /\ UNCHANGED <<conn_list, pending, err, errcode>>
            /\ pc' = IF i = cluster.conn_count THEN "loop" ELSE "prime"
       ELSE \E io \in SendIo :
              LET r == PrimeStep(i, io)
              IN  /\ conn_list' = [conn_list EXCEPT ![i] = r.conn]
                  /\ IF r.err # "none"
                     THEN Raise(r.err, plproxy_error_code) /\ UNCHANGED pending
                     ELSE /\ pending' = pending + 1
                          /\ pc' = IF i = cluster.conn_count THEN "loop" ELSE "prime"
                          /\ UNCHANGED <<err, errcode>>
    /\ i' = i + 1
    /\ UNCHANGED <<cluster, busy, ret_total, func, pfd, pf, exit, now,
                   QueryCancelPending, cancel_log>>

\* the host is asked to cancel the statement while the call waits
HostCancel ==
    /\ pc = "loop"
    /\ pending > 0
    /\ ~QueryCancelPending
    /\ QueryCancelPending' = TRUE
    /\ UNCHANGED <<cluster, busy, ret_total, conn_list, func, pc, i, pending, pfd, pf,
                   err, errcode, exit, now, cancel_log>>

\* remote_execute: while (pending) is over
LoopExit ==
    /\ pc = "loop"
    /\ pending = 0
    /\ pc' = "review"
    /\ UNCHANGED <<cluster, busy, ret_total, conn_list, func, i, pending, pfd, pf,
                   err, errcode, exit, now, QueryCancelPending, cancel_log>>

\* remote_execute: CHECK_FOR_INTERRUPTS() with a cancel pending
CheckForInterrupts ==
    /\ pc = "loop"
    /\ pending > 0
    /\ QueryCancelPending
    /\ QueryCancelPending' = FALSE
    /\ Raise("canceling statement due to user request", ERRCODE_QUERY_CANCELED)
    /\ UNCHANGED <<cluster, busy, ret_total, conn_list, func, i, pending, pfd, pf,
                   exit, now, cancel_log>>

\* poll_conns, first loop: decide what to do
poll_event(st) == IF st \in {C_CONNECT_READ, C_QUERY_READ} THEN "POLLIN" ELSE "POLLOUT"

\* variant: the first loop does not look at run_tag
RECURSIVE PollSet_any_tag(_, _)
PollSet_any_tag(conns, k) ==
    IF k > Len(conns) THEN <<>>
    ELSE IF IoState(conns[k].state)
         THEN <<k>> \o PollSet_any_tag(conns, k + 1)
         ELSE PollSet_any_tag(conns, k + 1)

\* poll_conns, first loop: the tagged connections in an I/O state, in order
RECURSIVE PollSet(_, _)
PollSet(conns, k) ==
    IF k > Len(conns) THEN <<>>
    ELSE IF conns[k].run_tag # 0 /\ IoState(conns[k].state)
         THEN <<k>> \o PollSet(conns, k + 1)
         ELSE PollSet(conns, k + 1)

\* variant: the wait is entered without a look at the cancel flag
PollTimeout_before_check ==
    /\ pc = "loop"
    /\ pending > 0
    /\ now < MaxTime
    /\ now' = now + 1
    /\ UNCHANGED <<cluster, busy, ret_total, conn_list, func, pc, i, pending, pfd, pf,
                   err, errcode, exit, QueryCancelPending, cancel_log>>

\* poll_conns: poll() returns 0 after the 1000 ms tick; remote_execute continues
PollTimeout ==
    /\ pc = "loop"
    /\ pending > 0
    /\ ~QueryCancelPending
    /\ now < MaxTime
    /\ now' = now + 1
    /\ UNCHANGED <<cluster, busy, ret_total, conn_list, func, pc, i, pending, pfd, pf,
                   err, errcode, exit, QueryCancelPending, cancel_log>>

\* poll_conns: poll() is interrupted (EINTR); remote_execute continues
PollEintr ==
    /\ pc = "loop"
    /\ pending > 0
    /\ ~QueryCancelPending
    /\ UNCHANGED vars

\* poll_conns: poll() fails
PollFailed ==
    /\ pc = "loop"
    /\ pending > 0
    /\ ~QueryCancelPending
    /\ Raise("poll() failed", plproxy_error_code)
    /\ UNCHANGED <<cluster, busy, ret_total, conn_list, func, i, pending, pfd, pf,
                   exit, now, QueryCancelPending, cancel_log>>

\* poll_conns: poll() reports events on some of the sockets, dt seconds
\* after it was called
PollEvents(dt) ==
    /\ pc = "loop"
    /\ pending > 0
    /\ ~QueryCancelPending
    /\ LET fds == PollSet(conn_list, 1)
       IN  \E ready \in (SUBSET (1..Len(fds))) \ {{}} :
              pfd' = [k \in 1..Len(fds) |->
                        [fd |-> fds[k], events |-> poll_event(conn_list[fds[k]].state),
                         revents |-> k \in ready]]
    /\ now + dt <= MaxTime
    /\ now' = now + dt
    /\ pc' = "dispatch"
    /\ i' = 1
    /\ pf' = 1
    /\ UNCHANGED <<cluster, busy, ret_total, conn_list, func, pending, err, errcode,
                   exit, QueryCancelPending, cancel_log>>

\* variant: a login that wants to read more is taken as finished
handle_conn_reading_is_ready(conn, ev) ==
    IF conn.state \in {C_CONNECT_READ, C_CONNECT_WRITE} THEN
        IF ev.poll = "PGRES_POLLING_WRITING" THEN Ok([conn EXCEPT !.state = C_CONNECT_WRITE])
        ELSE IF ev.poll \in {"PGRES_POLLING_READING", "PGRES_POLLING_OK"}
            THEN Ok([conn EXCEPT !.state = C_READY])
        ELSE Fail(conn, "PQconnectPoll")
    ELSE IF conn.state = C_QUERY_WRITE THEN flush_connection(conn, ev.flush)
    ELSE Ok(conn)

\* handle_conn for a connection that is connecting or writing its query:
\* ev.poll is what PQconnectPoll returns, ev.flush what PQflush returns
handle_conn(conn, ev) ==
    IF conn.state \in {C_CONNECT_READ, C_CONNECT_WRITE} THEN
        IF ev.poll = "PGRES_POLLING_WRITING" THEN Ok([conn EXCEPT !.state = C_CONNECT_WRITE])
        ELSE IF ev.poll = "PGRES_POLLING_READING" THEN Ok([conn EXCEPT !.state = C_CONNECT_READ])
        ELSE IF ev.poll = "PGRES_POLLING_OK" THEN Ok([conn EXCEPT !.state = C_READY])
        ELSE Fail(conn, "PQconnectPoll")
    ELSE IF conn.state = C_QUERY_WRITE THEN flush_connection(conn, ev.flush)
    ELSE Ok(conn)

HandleEv ==
    [poll : {"PGRES_POLLING_WRITING", "PGRES_POLLING_READING", "PGRES_POLLING_OK",
             "PGRES_POLLING_FAILED", "PGRES_POLLING_ACTIVE"},
     flush : {-1, 0, 1}]

\* variant: the entry pointer moves on only past a connection that is still
\* in an I/O state after it was handled
DispatchConn_entry_by_state ==
    /\ pc = "dispatch"
    /\ i <= cluster.conn_count
    /\ IF ~Armed(i) \/ ~IoState(conn_list[i].state)
       THEN /\ i' = i + 1
            /\ UNCHANGED <<conn_list, pc, pf, err, errcode>>
       ELSE IF ~pfd[pf].revents
       THEN /\ i' = i + 1
            /\ pf' = pf + 1
            /\ UNCHANGED <<conn_list, pc, err, errcode>>
       ELSE IF conn_list[i].state = C_QUERY_READ
       THEN \E consumed \in BOOLEAN :
              IF consumed
              THEN pc' = "drain" /\ UNCHANGED <<conn_list, i, pf, err, errcode>>
              ELSE Raise("PQconsumeInput", plproxy_error_code)
                   /\ UNCHANGED <<conn_list, i, pf>>
       ELSE \E ev \in HandleEv :
              LET r == handle_conn(conn_list[i], ev)
              IN  /\ conn_list' = [conn_list EXCEPT ![i] = r.conn]
                  /\ IF r.err # "none"
                     THEN Raise(r.err, plproxy_error_code) /\ UNCHANGED <<i, pf>>
                     ELSE /\ i' = i + 1
                          /\ pf' = IF IoState(r.conn.state) THEN pf + 1 ELSE pf
                          /\ UNCHANGED <<pc, err, errcode>>
    /\ UNCHANGED <<cluster, busy, ret_total, func, pending, pfd, exit, now,
                   QueryCancelPending, cancel_log>>

\* poll_conns, second loop, connection i
DispatchConn ==
    /\ pc = "dispatch"
    /\ i <= cluster.conn_count
    /\ IF ~Armed(i) \/ ~IoState(conn_list[i].state)
       THEN /\ i' = i + 1
            /\ UNCHANGED <<conn_list, pc, pf, err, errcode>>
       ELSE IF ~pfd[pf].revents
       THEN /\ i' = i + 1
            /\ pf' = pf + 1
            /\ UNCHANGED <<conn_list, pc, err, errcode>>
       ELSE IF conn_list[i].state = C_QUERY_READ
       THEN \* PQconsumeInput, then the loop over PQisBusy/another_result
            \E consumed \in BOOLEAN :
              IF consumed
              THEN pc' = "drain" /\ UNCHANGED <<conn_list, i, pf, err, errcode>>
              ELSE Raise("PQconsumeInput", plproxy_error_code)
                   /\ UNCHANGED <<conn_list, i, pf>>
       ELSE \E ev \in HandleEv :
              LET r == handle_conn(conn_list[i], ev)
              IN  /\ conn_list' = [conn_list EXCEPT ![i] = r.conn]
                  /\ IF r.err # "none"
                     THEN Raise(r.err, plproxy_error_code) /\ UNCHANGED <<i, pf>>
                     ELSE /\ i' = i + 1
                          /\ pf' = pf + 1
                          /\ UNCHANGED <<pc, err, errcode>>
    /\ UNCHANGED <<cluster, busy, ret_total, func, pending, pfd, exit, now,
                   QueryCancelPending, cancel_log>>

\* handle_conn, C_QUERY_READ: PQisBusy says the result is incomplete
DrainBusy ==
    /\ pc = "drain"
    /\ pc' = "dispatch"
    /\ i' = i + 1
    /\ pf' = pf + 1
    /\ UNCHANGED <<cluster, busy, ret_total, conn_list, func, pending, pfd, err, errcode,
                   exit, now, QueryCancelPending, cancel_log>>

\* handle_conn, C_QUERY_READ: another_result(func, conn)
DrainResult ==
    /\ pc = "drain"
    /\ \E r \in ResultsFor(conn_list[i]),
          sqlstate \in {ERRCODE_INTERNAL_ERROR, ERRCODE_QUERY_CANCELED} :
          LET a == another_result(conn_list[i], r)
          IN  /\ conn_list' = [conn_list EXCEPT ![i] = a.conn]
              /\ IF a.err = "remote error"
                 THEN Raise(a.err, sqlstate) /\ UNCHANGED <<i, pf>>
                 ELSE IF a.err # "none"
                 THEN Raise(a.err, plproxy_error_code) /\ UNCHANGED <<i, pf>>
                 ELSE IF a.more THEN UNCHANGED <<pc, i, pf, err, errcode>>
                 ELSE /\ pc' = "dispatch"
                      /\ i' = i + 1
                      /\ pf' = pf + 1
                      /\ UNCHANGED <<err, errcode>>
    /\ UNCHANGED <<cluster, busy, ret_total, func, pending, pfd, exit, now,
                   QueryCancelPending, cancel_log>>

\* poll_conns returns 1: remote_execute starts its recheck
DispatchDone ==
    /\ pc = "dispatch"
    /\ i > cluster.conn_count
    /\ pc' = "recheck"
    /\ i' = 1
    /\ pending' = 0
    /\ pfd' = <<>>
    /\ pf' = 1
    /\ UNCHANGED <<cluster, busy, ret_total, conn_list, func, err, errcode,
                   exit, now, QueryCancelPending, cancel_log>>

\* variant: the query is also sent while the login is still being read
RecheckStep_sends_early(c, io) ==
    IF conn_list[c].state \in {C_READY, C_CONNECT_READ}
    THEN send_query(conn_list[c], now, io)
    ELSE Ok(conn_list[c])

\* variant: the recheck also sends on a connection that is Done
RecheckStep_sends_again(c, io) ==
    IF conn_list[c].state \in {C_READY, C_DONE}
    THEN send_query(conn_list[c], now, io)
    ELSE Ok(conn_list[c])

\* remote_execute, recheck loop, connection i: send_query on a connection
\* that became ready, count it as pending, check_timeouts
RecheckStep(c, io) ==
    IF conn_list[c].state = C_READY THEN send_query(conn_list[c], now, io)
    ELSE Ok(conn_list[c])

RecheckConn ==
    /\ pc = "recheck"
    /\ i <= cluster.conn_count
    /\ IF ~Armed(i)
       THEN UNCHANGED <<conn_list, pc, pending, err, errcode>>
       ELSE \E io \in (IF conn_list[i].state = C_READY THEN QueryIo ELSE {NoIo}) :
              LET r == RecheckStep(i, io)
                  t == check_timeouts(r.conn, cluster.config, now)
              IN  /\ conn_list' = [conn_list EXCEPT ![i] = r.conn]
                  /\ IF r.err # "none"
                     THEN Raise(r.err, plproxy_error_code) /\ UNCHANGED pending
                     ELSE /\ pending' = IF r.conn.state # C_DONE THEN pending + 1 ELSE pending
                          /\ IF t # "none" THEN Raise(t, plproxy_error_code)
                             ELSE UNCHANGED <<pc, err, errcode>>
    /\ i' = i + 1
    /\ UNCHANGED <<cluster, busy, ret_total, func, pfd, pf, exit, now,
                   QueryCancelPending, cancel_log>>

\* remote_execute: the recheck loop is over, back to while (pending)
RecheckDone ==
    /\ pc = "recheck"
    /\ i > cluster.conn_count
    /\ pc' = "loop"
    /\ i' = 1
    /\ UNCHANGED <<cluster, busy, ret_total, conn_list, func, pending, pfd, pf, err,
                   errcode, exit, now, QueryCancelPending, cancel_log>>

\* remote_execute, review loop from connection k on: the error raised (or
\* "none") and ret_total at that moment
RECURSIVE ReviewFrom(_, _, _)
ReviewFrom(conns, k, total) ==
    IF k > Len(conns) THEN [err |-> "none", total |-> total]
    ELSE LET conn == conns[k]
             tagged == conn.run_tag # 0
             hasres == conn.res # NullRes
         IN  IF (tagged \/ hasres) /\ ~(tagged /\ hasres)
                THEN [err |-> "run_tag does not match res", total |-> total]
             ELSE IF ~tagged THEN ReviewFrom(conns, k + 1, total)
             ELSE IF conn.state # C_DONE
                THEN [err |-> "Unfinished connection", total |-> total]
             ELSE IF conn.res = NullRes
                THEN [err |-> "Lost result", total |-> total]
             ELSE IF conn.res.status # PGRES_TUPLES_OK
                THEN [err |-> "Remote error", total |-> total]
             ELSE ReviewFrom(conns, k + 1, total + conn.res.ntuples)

\* variant: the review accepts whatever the loop left
review_results_unchecked(conns, total) == [err |-> "none", total |-> total]

\* remote_execute: review results, calculate total
review_results(conns, total) == ReviewFrom(conns, 1, total)

\* remote_execute, review loop; on success plproxy_exec clears busy and returns
Review ==
    /\ pc = "review"
    /\ LET r == review_results(conn_list, ret_total)
       IN  /\ ret_total' = r.total
           /\ IF r.err # "none"
              THEN Raise(r.err, plproxy_error_code) /\ UNCHANGED <<busy, exit>>
              ELSE /\ busy' = FALSE
                   /\ pc' = "idle"
                   /\ exit' = "ok"
                   /\ UNCHANGED <<err, errcode>>
    /\ UNCHANGED <<cluster, conn_list, func, i, pending, pfd, pf, now,
                   QueryCancelPending, cancel_log>>

\* remote_cancel, from connection k on: the cancel attempts, in order.
\* out[c] is what the attempt on connection c comes to: "sent", "failed"
\* (PQcancel returned 0) or "invalid" (PQgetCancel returned NULL).
RECURSIVE CancelFrom(_, _, _)
CancelFrom(conns, out, k) ==
    IF k > Len(conns) THEN <<>>
    ELSE IF conns[k].state \in {C_NONE, C_READY, C_DONE} THEN CancelFrom(conns, out, k + 1)
    ELSE <<[conn |-> k, result |-> out[k]]>> \o CancelFrom(conns, out, k + 1)

\* variant: the first cancel that fails ends the loop
RECURSIVE CancelUntilFailure(_, _, _)
CancelUntilFailure(conns, out, k) ==
    IF k > Len(conns) THEN <<>>
    ELSE IF conns[k].state \in {C_NONE, C_READY, C_DONE}
        THEN CancelUntilFailure(conns, out, k + 1)
    ELSE IF out[k] # "sent" THEN <<[conn |-> k, result |-> out[k]]>>
    ELSE <<[conn |-> k, result |-> out[k]]>> \o CancelUntilFailure(conns, out, k + 1)

remote_cancel_stops_on_failure(conns, out) == CancelUntilFailure(conns, out, 1)

\* remote_cancel
remote_cancel(conns, out) == CancelFrom(conns, out, 1)

\* variant: every error issues remote cancels
cancel_on_any_error(code) == TRUE

\* PG_CATCH: should remote_cancel run?
cancel_on_error(code) == code = ERRCODE_QUERY_CANCELED

\* plproxy_exec, PG_CATCH: clear busy; on cancel, remote_cancel(func)
PgCatch ==
    /\ pc = "catch"
    /\ busy' = FALSE
    /\ IF cancel_on_error(errcode)
       THEN \E out \in [Conns -> {"sent", "failed", "invalid"}] :
               cancel_log' = remote_cancel(conn_list, out)
       ELSE UNCHANGED cancel_log
    /\ pc' = "catch_clean"
    /\ UNCHANGED <<cluster, ret_total, conn_list, func, i, pending, pfd, pf, err,
                   errcode, exit, now, QueryCancelPending>>

\* plproxy_exec, PG_CATCH: plproxy_clean_results, then PG_RE_THROW
PgRethrow ==
    /\ pc = "catch_clean"
    /\ conn_list' = plproxy_clean_results(conn_list)
    /\ ret_total' = 0
    /\ pc' = "idle"
    /\ exit' = "error"
    /\ func' = NoFunc
    /\ i' = 1
    /\ pending' = 0
    /\ pfd' = <<>>
    /\ pf' = 1
    /\ cancel_log' = <<>>
    /\ err' = "none"
    /\ errcode' = "none"
    /\ UNCHANGED <<cluster, busy, now, QueryCancelPending>>

\* variant: the nested call is let in, and leaves as any failed call does
NestedCall_enters ==
    /\ pc = "tag"
    /\ func.run_type = R_HASH
    /\ busy
    /\ busy' = FALSE
    /\ conn_list' = plproxy_clean_results(conn_list)
    /\ Raise("Nested PL/Proxy calls to the same cluster are not supported",
             plproxy_error_code)
    /\ UNCHANGED <<cluster, ret_total, func, i, pending, pfd, pf,
                   exit, now, QueryCancelPending, cancel_log>>

\* a nested call on the busy cluster, made from within the hash query: the
\* caller of plproxy_exec refuses it, and the error unwinds the hash query
NestedCall ==
    /\ pc = "tag"
    /\ func.run_type = R_HASH
    /\ busy
    /\ Raise("Nested PL/Proxy calls to the same cluster are not supported",
             plproxy_error_code)
    /\ UNCHANGED <<cluster, busy, ret_total, conn_list, func, i, pending, pfd, pf,
                   exit, now, QueryCancelPending, cancel_log>>

\* the result iterator (result.c) walks a held tuple result after a call
plproxy_result ==
    /\ pc = "idle"
    /\ exit = "ok"
    /\ \E c \in Conns :
          /\ conn_list[c].res.status = PGRES_TUPLES_OK
          /\ conn_list[c].pos < conn_list[c].res.ntuples
          /\ conn_list' = [conn_list EXCEPT ![c].pos = @ + 1]
    /\ UNCHANGED <<cluster, busy, ret_total, func, pc, i, pending, pfd, pf, err,
                   errcode, exit, now, QueryCancelPending, cancel_log>>

\* time passes between two calls
Tick ==
    /\ pc = "idle"
    /\ now < MaxTime
    /\ now' = now + 1
    /\ UNCHANGED <<cluster, busy, ret_total, conn_list, func, pc, i, pending, pfd, pf,
                   err, errcode, exit, QueryCancelPending, cancel_log>>

\* ------------------------------------------------------- clusters and calls
Max(S) == CHOOSE x \in S : \A y \in S : y <= x
Range(q) == {q[k] : k \in DOMAIN q}

\* the version of the local build, and a version of another branch
PG_VERSION == <<"9", ".", "1", ".", "3">>
OtherBranch == <<"9", ".", "2", ".", "3">>

\* a loaded cluster: map lists the connection of partition 0, 1, ...
Cluster(map, cf) ==
    [part_count |-> Len(map), part_mask |-> Len(map) - 1,
     part_map |-> [p \in 0..(Len(map) - 1) |-> map[p + 1]],
     conn_count |-> Max(Range(map)), config |-> cf,
     pg_version |-> PG_VERSION, server_versions |-> {PG_VERSION, OtherBranch}]

Configs ==
    {[connect_timeout |-> 1, query_timeout |-> 1, connection_lifetime |-> 2,
      disable_binary |-> FALSE],
     [connect_timeout |-> 0, query_timeout |-> 0, connection_lifetime |-> 0,
      disable_binary |-> FALSE]}

\* two connections behind four partitions
ExecClusters == {Cluster(<<1, 2, 2, 1>>, cf) : cf \in {CHOOSE cf \in Configs : cf.query_timeout > 0}}

\* one connection behind two partitions
TimedClusters == {Cluster(<<1, 1>>, cf) : cf \in Configs}

SeqsUpTo(S, n) == UNION {[1..k -> S] : k \in 0..n}

HashVals == {-1, 2, 5}
\* a hash datum of an int2 or int4 column, and a NULL
IntDatum(v) == [isnull |-> FALSE, v |-> v, hi |-> IF v < 0 THEN -1 ELSE 0]
NullHash == [isnull |-> TRUE, v |-> 0, hi |-> 0]
HashRow == {IntDatum(v) : v \in HashVals} \cup {NullHash}
Scalar == [isnull |-> FALSE, ndim |-> 0, elems |-> <<>>]

\* a call of a function without split arguments
PlainFunc(rt, nr, retset, htype, rows, r) ==
    [run_type |-> rt, exact_nr |-> nr, fn_retset |-> retset, new_split |-> FALSE,
     split_args |-> <<FALSE>>, args |-> <<Scalar>>, htype |-> htype,
     hashres |-> <<rows>>, rand |-> <<r>>, splitrows |-> <<>>, ret |-> TextScalar,
     arg_lookup |-> <<1>>]

ExecFuncs ==
    {PlainFunc(R_ALL, 0, FALSE, "int4", <<>>, 0)}
    \cup {PlainFunc(R_ANY, 0, FALSE, "int4", <<>>, r) : r \in {0, 6}}
    \cup {PlainFunc(R_EXACT, nr, FALSE, "int4", <<>>, 0) : nr \in {-1, 1, 4}}
    \cup {PlainFunc(R_HASH, 0, retset, "int4", rows, 0) :
            retset \in BOOLEAN, rows \in SeqsUpTo(HashRow, MaxHashRows)}
    \cup {PlainFunc(R_HASH, 0, FALSE, "text", <<IntDatum(2)>>, 0)}

\* ---- calls with split arguments
ElemVals == {7, 8}
Arrays == [isnull : {FALSE}, ndim : {1}, elems : SeqsUpTo(ElemVals, MaxLen)]
Array(q) == [isnull |-> FALSE, ndim |-> 1, elems |-> q]
H(v) == IntDatum(v)

\* what the hash query may return for one element
ElemHashRows ==
    {<<>>} \cup {<<r>> : r \in HashRow} \cup {<<H(2), H(5)>>, <<H(5), H(5)>>}

\* the rows of the one-query split hash: (i, hash) for every row the hash
\* query gives for element i, for i = 1..Len(hashres)
RECURSIVE SplitRowsOf(_, _)
SplitRowsOf(hashres, k) ==
    IF k > Len(hashres) THEN <<>>
    ELSE [j \in 1..Len(hashres[k]) |-> [idx |-> H(k), hash |-> hashres[k][j]]]
         \o SplitRowsOf(hashres, k + 1)

Reverse(q) == [k \in 1..Len(q) |-> q[Len(q) + 1 - k]]

\* the same rows in another order the query may give them in: the first row
\* of every element, then the remaining rows of every element
RECURSIVE RowsFrom(_, _, _)
RowsFrom(hashres, k, first) ==
    IF k > Len(hashres) THEN <<>>
    ELSE LET rows == [j \in 1..Len(hashres[k]) |-> [idx |-> H(k), hash |-> hashres[k][j]]]
         IN  (IF rows = <<>> THEN <<>>
              ELSE IF first THEN <<rows[1]>> ELSE Tail(rows))
             \o RowsFrom(hashres, k + 1, first)
Interleaved(hashres) == RowsFrom(hashres, 1, TRUE) \o RowsFrom(hashres, 1, FALSE)

\* a call with split arguments; rnd fills rand[] for every row
SplitFunc(rt, retset, newsplit, sargs, args, hashres, rows) ==
    [run_type |-> rt, exact_nr |-> 2, fn_retset |-> retset, new_split |-> newsplit,
     split_args |-> sargs, args |-> args, htype |-> "int4",
     hashres |-> hashres, rand |-> [k \in 1..Len(hashres) |-> 5 + k],
     splitrows |-> rows, ret |-> TextScalar,
     arg_lookup |-> [k \in 1..Len(args) |-> k]]

\* the second argument of a two-argument call, given the first (split) array
SecondArgs(a) ==
    {Array([k \in 1..Len(a.elems) |-> a.elems[k] + 10]),
     Array(<<>>),
     [isnull |-> TRUE, ndim |-> 1, elems |-> <<>>],
     [isnull |-> FALSE, ndim |-> 2, elems |-> a.elems]}

\* other orders of the placeholders of a two-argument query
Lookups == {<<2, 1>>, <<2, 2, 1>>}

SplitFuncs ==
    LET one == {<<a, hr>> \in Arrays \X SeqsUpTo(ElemHashRows, MaxLen) :
                    Len(hr) = Len(a.elems)}
        two == UNION {{SplitFunc(R_HASH, FALSE, ns, <<TRUE, s2>>, <<x[1], b>>, x[2],
                                 SplitRowsOf(x[2], 1)) :
                          b \in SecondArgs(x[1]), s2 \in BOOLEAN, ns \in BOOLEAN} :
                      x \in {y \in one : \A k \in 1..Len(y[2]) : Len(y[2][k]) = 1}}
    IN  \* one split array, hash routed, element by element
        {SplitFunc(R_HASH, retset, FALSE, <<TRUE>>, <<x[1]>>, x[2], <<>>) :
            x \in one, retset \in BOOLEAN}
        \* one split array, hash routed, all hashes in one query
        \cup {SplitFunc(R_HASH, TRUE, TRUE, <<TRUE>>, <<x[1]>>, x[2], SplitRowsOf(x[2], 1)) :
                x \in one}
        \cup {SplitFunc(R_HASH, TRUE, TRUE, <<TRUE>>, <<x[1]>>, x[2],
                        Reverse(SplitRowsOf(x[2], 1))) : x \in one}
        \cup {SplitFunc(R_HASH, TRUE, TRUE, <<TRUE>>, <<x[1]>>, x[2],
                        Interleaved(x[2])) : x \in one}
        \* two arguments, the second split or not
        \cup two
        \cup {[f EXCEPT !.arg_lookup = al] : f \in two, al \in Lookups}
        \* split arrays with the other run types
        \cup {SplitFunc(rt, FALSE, FALSE, <<TRUE>>, <<a>>, [k \in 1..Len(a.elems) |-> <<>>], <<>>) :
                rt \in {R_ALL, R_ANY, R_EXACT}, a \in Arrays}

\* the split calls made on the two-connection cluster
ExecSplitFuncs ==
    {SplitFunc(R_HASH, FALSE, ns, <<TRUE>>, <<Array(<<7, 8>>)>>, <<<<H(2)>>, <<H(5)>>>>,
               SplitRowsOf(<<<<H(2)>>, <<H(5)>>>>, 1)) : ns \in BOOLEAN}

\* four partitions on four connections, or on three with one shared
SplitClusters ==
    {Cluster(map, CHOOSE cf \in Configs : cf.query_timeout > 0) :
        map \in {<<1, 2, 3, 4>>, <<1, 2, 2, 3>>}}

InitWith(clusters) ==
    /\ cluster \in clusters
    /\ busy = FALSE
    /\ ret_total = 0
    /\ conn_list = [c \in 1..cluster.conn_count |-> NewConn]
    /\ func = NoFunc
    /\ pc = "idle"
    /\ i = 1
    /\ pending = 0
    /\ pfd = <<>>
    /\ pf = 1
    /\ err = "none"
    /\ errcode = "none"
    /\ exit = "none"
    /\ now = 0
    /\ QueryCancelPending = FALSE
    /\ cancel_log = <<>>

Init == InitWith(ExecClusters)

Exec == pc = "idle" /\ \E f \in ExecFuncs \cup ExecSplitFuncs : plproxy_exec(f)

\* the steps that do not depend on the clock
Untimed ==
    \/ TagPartitions
    \/ NestedCall
    \/ BindParameters
    \/ PrimeConn
    \/ HostCancel
    \/ LoopExit
    \/ CheckForInterrupts
    \/ PollEintr
    \/ PollFailed
    \/ DispatchConn
    \/ DrainBusy
    \/ DrainResult
    \/ DispatchDone
    \/ RecheckConn
    \/ RecheckDone
    \/ Review
    \/ PgCatch
    \/ PgRethrow
    \/ plproxy_result

\* Calls on a two-connection cluster, all within one second of the clock.
Next ==
    \/ Exec
    \/ PollEvents(0)
    \/ Untimed

Spec == Init /\ [][Next]_vars

\* Tagging and splitting on a four-partition cluster: calls up to the
\* moment their parameters are bound.
SplitInit == InitWith(SplitClusters)

ExecSplit == pc = "idle" /\ \E f \in SplitFuncs : plproxy_exec(f)

SplitNext ==
    \/ ExecSplit
    \/ TagPartitions
    \/ BindParameters
    \/ PgCatch
    \/ PgRethrow

SplitSpec == SplitInit /\ [][SplitNext]_vars

\* Calls on a one-connection cluster while the clock runs.
TimedInit == InitWith(TimedClusters)

PollEventsTimed == \E dt \in {0, 1} : PollEvents(dt)

\* on one connection every hash row selects it: one row is enough
TimedFuncs ==
    {f \in ExecFuncs : f.run_type = R_HASH => (Len(f.hashres[1]) <= 1 /\ ~f.fn_retset)}

TimedExec == pc = "idle" /\ \E f \in TimedFuncs : plproxy_exec(f)

TimedNext ==
    \/ TimedExec
    \/ PollEventsTimed
    \/ PollTimeout
    \/ Tick
    \/ Untimed

TimedSpec == TimedInit /\ [][TimedNext]_vars

\* Calls of functions of every return type on a one-connection cluster, with
\* binary I/O allowed or disabled; the clock stands still.
SendConfigs ==
    [connect_timeout : {0}, query_timeout : {0}, connection_lifetime : {0},
     disable_binary : BOOLEAN]
SendClusters == {Cluster(<<1>>, cf) : cf \in SendConfigs}
SendFuncs ==
    {[PlainFunc(R_ALL, 0, FALSE, "int4", <<>>, 0) EXCEPT !.ret = rt] : rt \in RetTypes}
    \cup {PlainFunc(R_HASH, 0, FALSE, "int4", <<H(2)>>, 0)}

SendInit == InitWith(SendClusters)

SendExec == pc = "idle" /\ \E f \in SendFuncs : plproxy_exec(f)

SendNext ==
    \/ SendExec
    \/ PollEvents(0)
    \/ Untimed

SendSpec == SendInit /\ [][SendNext]_vars

\* Calls that arm one of two connections, with seconds passing between the
\* calls.
FrameConfigs ==
    [connect_timeout : {0}, query_timeout : {0}, connection_lifetime : {0},
     disable_binary : {FALSE}]
FrameClusters == {Cluster(<<1, 2>>, cf) : cf \in FrameConfigs}
FrameFuncs == {PlainFunc(R_EXACT, nr, FALSE, "int4", <<>>, 0) : nr \in {0, 1}}

FrameInit == InitWith(FrameClusters)

FrameExec == pc = "idle" /\ \E f \in FrameFuncs : plproxy_exec(f)

\* a second passes between two calls
FrameTick == now < MaxFrameTime /\ Tick

\* the steps of a call that look at a connection, and the clock
FrameNext ==
    \/ FrameExec
    \/ TagPartitions
    \/ BindParameters
    \/ PrimeConn
    \/ LoopExit
    \/ PollEvents(0)
    \/ DispatchConn
    \/ DrainBusy
    \/ DrainResult
    \/ DispatchDone
    \/ RecheckConn
    \/ RecheckDone
    \/ Review
    \/ PgCatch
    \/ PgRethrow
    \/ FrameTick

FrameSpec == FrameInit /\ [][FrameNext]_vars

\* Hash routing of hash values of every integer type, on clusters of two,
\* four and eight partitions: calls up to the moment their parameters are
\* bound.
Int8Datum(hi, v) == [isnull |-> FALSE, v |-> v, hi |-> hi]

\* hash values of each type: the ends of the range, negative values, and for
\* int8 values below -2^31 and above 2^31 - 1
HashDatums(t) ==
    IF t = "int2" THEN {IntDatum(v) : v \in {-32768, -3, 6, 32767}}
    ELSE IF t = "int4" THEN {IntDatum(v) : v \in {-2147483647, -3, 6, 2147483646}}
    ELSE {Int8Datum(hi, v) : hi \in {-2147483647, -1, 0, 1, 5},
                             v \in {-2147483647, -3, 6, 2147483646}}

HashClusters ==
    {Cluster(map, CHOOSE cf \in Configs : cf.query_timeout > 0) :
        map \in {<<1, 2>>, <<1, 2, 3, 4>>, <<1, 2, 3, 4, 5, 6, 7, 8>>}}

HashFuncs ==
    UNION {{PlainFunc(R_HASH, 0, FALSE, t, <<h>>, 0) : h \in HashDatums(t)}
           \cup {[SplitFunc(R_HASH, TRUE, TRUE, <<TRUE>>, <<Array(<<7>>)>>, <<<<h>>>>,
                            <<[idx |-> H(1), hash |-> h]>>) EXCEPT !.htype = t] :
                    h \in HashDatums(t)} :
           t \in {"int2", "int4", "int8"}}
    \cup {PlainFunc(R_HASH, 0, FALSE, "int8", <<NullHash>>, 0)}

HashInit == InitWith(HashClusters)

ExecHash == pc = "idle" /\ \E f \in HashFuncs : plproxy_exec(f)

HashNext ==
    \/ ExecHash
    \/ TagPartitions
    \/ BindParameters
    \/ PgCatch
    \/ PgRethrow

HashSpec == HashInit /\ [][HashNext]_vars

\* Calls on a one-connection cluster whose server reports one of several
\* version strings, from builds of several versions.
Versions ==
    {PG_VERSION,
     <<"9", ".", "1", ".", "4">>,
     <<"9", ".", "1">>,
     <<"9", ".", "1", ".">>,
     <<"9", ".", "1", ".", "3", ".", "1">>,
     <<"9", ".", "1", "1">>,
     OtherBranch,
     <<"9", ".", "2">>,
     <<"1", ".", "1", ".", "3">>,
     <<"9">>,
     <<"9", ".">>,
     <<"9", "1">>,
     <<"9", ".", ".", "3">>,
     <<>>}

VerClusters ==
    {[Cluster(<<1>>, cf) EXCEPT !.pg_version = a, !.server_versions = {b}] :
        cf \in FrameConfigs, a \in Versions, b \in Versions}
VerFuncs == {PlainFunc(R_ALL, 0, FALSE, "int4", <<>>, 0)}

VerInit == InitWith(VerClusters)

VerExec == pc = "idle" /\ \E f \in VerFuncs : plproxy_exec(f)

VerNext ==
    \/ VerExec
    \/ TagPartitions
    \/ BindParameters
    \/ PrimeConn
    \/ LoopExit
    \/ PollEvents(0)
    \/ DispatchConn
    \/ DrainBusy
    \/ DrainResult
    \/ DispatchDone
    \/ RecheckConn
    \/ RecheckDone
    \/ Review
    \/ PgCatch
    \/ PgRethrow

VerSpec == VerInit /\ [][VerNext]_vars

\* ------------------------------------------------------------------ claims
Returned == pc = "idle" /\ exit = "ok"
Failed == pc = "idle" /\ exit = "error"
Cleared(c) ==
    /\ conn_list[c].run_tag = 0
    /\ conn_list[c].res = NullRes
    /\ conn_list[c].pos = 0
    /\ conn_list[c].bstate = NullPtr

\* C1: when a call returns normally, every armed connection is Done and holds
\* one tuple-bearing result, and every connection that holds a result is armed.
C1_ArmedPairedWithResults ==
    Returned =>
        \A c \in Conns :
            /\ Armed(c) => /\ conn_list[c].state = C_DONE
                           /\ conn_list[c].res # NullRes
                           /\ conn_list[c].res.status = PGRES_TUPLES_OK
            /\ conn_list[c].res # NullRes => Armed(c)

\* a normal return with one connection armed and the other, unarmed, still
\* in the middle of a query of an earlier, failed call
C1_Witness ==
    /\ Returned
    /\ Armed(1) /\ conn_list[1].res.status = PGRES_TUPLES_OK
    /\ ~Armed(2) /\ conn_list[2].state = C_QUERY_READ

\* the sub-array connection c has got for split argument col
SubArray(c, col) == conn_list[c].split_params[col].elems
Count(v, q) == Cardinality({k \in DOMAIN q : q[k] = v})

\* how often v occurs in the sub-arrays of the armed connections 1..c
RECURSIVE CountInArmed(_, _, _)
CountInArmed(v, col, c) ==
    IF c = 0 THEN 0
    ELSE CountInArmed(v, col, c - 1)
         + (IF Armed(c) THEN Count(v, SubArray(c, col)) ELSE 0)

\* the hash query sends element n to connection c
Routes(n, c) ==
    \E k \in DOMAIN func.hashres[n] :
        cluster.part_map[func.hashres[n][k].v % cluster.part_count] = c

SplitTagged == pc = "bind" /\ SplitCols(func) # {}

\* the sub-arrays of the armed connections add up to the input array, and each
\* armed connection holds the elements whose hash selects it
SplitPartitionsInput ==
    \A col \in SplitCols(func) :
        LET input == func.args[col].elems
        IN  \A v \in Range(input) :
                /\ CountInArmed(v, col, cluster.conn_count) = Count(v, input)
                /\ \A c \in Conns :
                      Armed(c) =>
                          Count(v, SubArray(c, col)) =
                              Cardinality({n \in DOMAIN input : input[n] = v /\ Routes(n, c)})

\* C2 as stated: in every split call the sub-arrays of the armed connections
\* add up to the input arrays, and element i is in the sub-array of exactly
\* the connection part_map[hash(element i) & part_mask].
C2_SplitPartitionsEveryCall == SplitTagged => SplitPartitionsInput

\* C2, amended: in every RUN ON HASH split call whose hash query gives exactly
\* one row for each element, the sub-arrays of the armed connections add up to
\* the input arrays, element i is in the sub-array of exactly the connection
\* part_map[hash(element i) & part_mask], and no other connection is armed.
C2_SplitPartitionsOneHashEach ==
    (/\ SplitTagged
     /\ func.run_type = R_HASH
     /\ \A n \in DOMAIN func.hashres : Len(func.hashres[n]) = 1) =>
        /\ SplitPartitionsInput
        /\ \A c \in Conns : Armed(c) <=> \E n \in DOMAIN func.hashres : Routes(n, c)

\* two elements hashed to two partitions of one connection, in one hash query
C2_Witness ==
    /\ SplitTagged /\ func.run_type = R_HASH /\ func.new_split
    /\ func.args[1].elems = <<7, 8>>
    /\ func.hashres = <<<<H(5)>>, <<H(2)>>>>
    /\ cluster.part_map[1] = cluster.part_map[2]
    /\ SubArray(2, 1) = <<7, 8>>

\* the partition a hash value selects, as a residue of the partition count
HashPartition(h) == h % cluster.part_count

\* C3: in a RUN ON HASH call without split arguments, once tagging is done the
\* armed connections are exactly those of the partitions the hash rows select.
C3_HashArmsSelected ==
    (pc = "bind" /\ func.run_type = R_HASH /\ SplitCols(func) = {}) =>
        {c \in Conns : Armed(c)} =
            {cluster.part_map[HashPartition(func.hashres[1][k].v)] :
                k \in 1..Len(func.hashres[1])}

\* two hash rows that select one connection through two different
\* partitions, the other connection staying unarmed
C3_Witness ==
    /\ pc = "bind" /\ func.run_type = R_HASH /\ SplitCols(func) = {}
    /\ Len(func.hashres[1]) = 2
    /\ func.hashres[1][1].v = 2 /\ func.hashres[1][2].v = 5
    /\ Armed(2) /\ ~Armed(1)

\* some armed connection has waited for its query longer than query_timeout
\* plus one poll tick
QueryOverdue ==
    \E c \in Conns :
        /\ Armed(c)
        /\ conn_list[c].state \in {C_QUERY_READ, C_QUERY_WRITE}
        /\ cluster.config.query_timeout > 0
        /\ now - conn_list[c].query_time > cluster.config.query_timeout + 1

\* C4: with query_timeout = T > 0 the executor never waits on an armed
\* connection in a query state for more than T + 1 seconds, whether or not
\* any socket reports an event.
C4_TimeoutWithinOneTick == (pc = "loop") => ~QueryOverdue

\* C5: when an error leaves plproxy_exec, busy is false and every connection
\* has run_tag 0, no result, result position 0 and no split accumulator.
C5_ErrorLeavesNothing ==
    Failed => /\ ~busy
              /\ \A c \in Conns : Cleared(c)

\* a failed call that left a connection in the middle of its query
C5_Witness ==
    /\ Failed
    /\ \E c \in Conns : conn_list[c].state = C_QUERY_READ

\* C6 as stated: after plproxy_exec has returned, normally or by error, no
\* connection holds run_tag, result, position, accumulator or split_params.
C6_NothingHeldAfterCall ==
    (Returned \/ Failed) =>
        \A c \in Conns : Cleared(c) /\ conn_list[c].split_params = NullPtr

\* C6, amended: per-call state is reset when a call starts and when it exits
\* by error: run_tag 0, no result, position 0, no accumulator. split_params is
\* not part of the reset, and a normal return leaves the armed connections'
\* state in place for the result iterator.
C6_ResetAtEntryAndError ==
    (pc = "tag" \/ Failed) => \A c \in Conns : Cleared(c)

\* a call starts on a connection whose split_params are those of an earlier call
C6_Witness ==
    /\ pc = "tag"
    /\ \E c \in Conns : conn_list[c].split_params # NullPtr

\* C7: busy is true from the reset at entry through the review of the
\* results, and false whenever no call is running.
C7_BusyWhileRunning ==
    /\ pc \in {"tag", "bind", "prime", "loop", "dispatch", "drain", "recheck", "review"}
          => busy
    /\ pc = "idle" => ~busy

\* the executor is reading a result, busy
C7_Witness == pc = "drain" /\ busy

NestedError == "Nested PL/Proxy calls to the same cluster are not supported"

\* C8: a nested call on a busy cluster fails with the nested-call error and
\* changes no connection or per-call state; busy stays true until the outer
\* call exits.
C8_NestedCallRefused ==
    [][(err # NestedError /\ err' = NestedError) =>
            /\ busy /\ busy'
            /\ conn_list' = conn_list
            /\ ret_total' = ret_total
            /\ func' = func]_vars

\* the nested call has been refused and the outer call has not yet exited
C8_Witness == pc = "catch" /\ err = NestedError /\ busy

CancelError == "canceling statement due to user request"
Cancelled(c) == \E k \in DOMAIN cancel_log : cancel_log[k].conn = c

\* C9: when the call is cancelled, one cancel request goes to every connection
\* in a connect or query I/O state, armed or not, and to no other; a cancel
\* that fails does not stop the others; the per-call state is still in place
\* when the last cancel has been issued.
C9_CancelReachesAllInFlight ==
    (pc = "catch_clean" /\ err = CancelError) =>
        /\ \A c \in Conns : Cancelled(c) <=> IoState(conn_list[c].state)
        /\ Len(cancel_log) = Cardinality({c \in Conns : IoState(conn_list[c].state)})
        /\ \E c \in Conns : Armed(c)

\* both connections are in flight, the first cancel fails, the second is sent
C9_Witness ==
    /\ pc = "catch_clean" /\ err = CancelError
    /\ Len(cancel_log) = 2
    /\ cancel_log[1].result = "failed"
    /\ cancel_log[2].result = "sent"

TimedOut == pc = "catch_clean" /\ err = "query timeout"

\* C10 as stated: a call aborted by a query timeout issues a remote cancel to
\* the connection that timed out.
C10_TimeoutCancels ==
    TimedOut =>
        \E c \in Conns : /\ conn_list[c].state \in {C_QUERY_READ, C_QUERY_WRITE}
                         /\ Cancelled(c)

\* C10, amended: a call aborted by a query timeout issues no remote cancel;
\* the connection that timed out is still in its query state when the
\* per-call state is cleared.
C10_TimeoutDoesNotCancel ==
    TimedOut =>
        /\ cancel_log = <<>>
        /\ \E c \in Conns : /\ Armed(c)
                            /\ conn_list[c].state \in {C_QUERY_READ, C_QUERY_WRITE}

\* a query timeout caught while the connection waits for its result
C10_Witness ==
    /\ TimedOut
    /\ conn_list[1].state = C_QUERY_READ

\* the outcome of tagging and splitting the current call through the
\* element-by-element path, and through the one-query path fed the rows that
\* query gives in subscript order
ViaOldSplit ==
    prepare_and_tag_partitions(conn_list, [func EXCEPT !.new_split = FALSE])
ViaNewSplit ==
    prepare_and_tag_partitions(conn_list,
        [func EXCEPT !.new_split = TRUE, !.splitrows = SplitRowsOf(func.hashres, 1)])

HashSplitStarts == pc = "tag" /\ func.run_type = R_HASH /\ SplitCols(func) # {}

\* C11: for the same split arrays, hash results and partition map, the
\* one-query split path and the element-by-element split path arm the same
\* connections with the same run_tag and the same sub-arrays.
C11_SplitPathsAgree ==
    HashSplitStarts =>
        /\ (ViaOldSplit.err = "none") <=> (ViaNewSplit.err = "none")
        /\ ViaOldSplit.err = "none" =>
              \A c \in Conns :
                  /\ ViaOldSplit.conns[c].run_tag = ViaNewSplit.conns[c].run_tag
                  /\ ViaOldSplit.conns[c].split_params = ViaNewSplit.conns[c].split_params

\* the rows of the hash query of a call without split arguments
HashRows == func.hashres[1]
HashRowsRefused ==
    \/ \E k \in DOMAIN HashRows : HashRows[k].isnull
    \/ ~func.fn_retset /\ Len(HashRows) # 1
SameLifecycle ==
    \A c \in Conns : /\ conn_list'[c].state = conn_list[c].state
                     /\ conn_list'[c].db = conn_list[c].db
                     /\ conn_list'[c].query_time = conn_list[c].query_time

Submits(c) ==
    /\ conn_list[c].state \in {C_READY, C_DONE}
    /\ conn_list'[c].state \in {C_QUERY_WRITE, C_QUERY_READ}
    /\ ~conn_list'[c].tuning
SupportsBinary(ret) == IF ret.scalar THEN ret.has_recv ELSE ret.use_binary

\* C13: whenever the remote query is submitted on a connection, binary result
\* format is asked for if and only if disable_binary is off, the connection's
\* same_ver is true and the return type supports binary receive; otherwise
\* text format is asked for.
C13_BinaryResultFormat ==
    [][\A c \in Conns :
          Submits(c) =>
              /\ conn_list'[c].resultformat \in {0, 1}
              /\ (conn_list'[c].resultformat = 1) <=>
                    (/\ ~cluster.config.disable_binary
                     /\ conn_list'[c].same_ver
                     /\ SupportsBinary(func.ret))]_vars

\* the query of a composite-returning function is out, binary format asked for
C13_Witness ==
    /\ pc = "loop"
    /\ ~func.ret.scalar
    /\ Armed(1) /\ conn_list[1].state = C_QUERY_READ /\ ~conn_list[1].tuning
    /\ conn_list[1].resultformat = 1

\* the rows held by the armed connections 1..c
RECURSIVE ArmedRows(_)
ArmedRows(c) ==
    IF c = 0 THEN 0
    ELSE ArmedRows(c - 1) + (IF Armed(c) THEN conn_list[c].res.ntuples ELSE 0)

\* C14: when a call has returned normally ret_total is the sum of the row
\* counts of the results the armed connections hold, and ret_total is 0 when
\* a call starts.
C14_RetTotalIsRowSum ==
    /\ Returned => ret_total = ArmedRows(cluster.conn_count)
    /\ pc = "tag" => ret_total = 0

\* both connections returned a row, after an earlier call that returned one
C14_Witness ==
    /\ Returned
    /\ ret_total = 2
    /\ \A c \in Conns : Armed(c) /\ conn_list[c].res.ntuples = 1

InQuery(st) == st \in {C_QUERY_WRITE, C_QUERY_READ}

\* C15: a query goes out on a connection only when the connection is Ready
\* (in the launch loop a connection left Done by the earlier call is made
\* Ready by prepare_conn in the same step), and an armed connection becomes
\* Done only while the poll loop handles events, after the launch loop has
\* gone over every armed connection.
C15_ReadyBeforeQuery ==
    [][\A c \in Conns :
          /\ (~InQuery(conn_list[c].state) /\ InQuery(conn_list'[c].state)) =>
                \/ conn_list[c].state = C_READY
                \/ conn_list[c].state = C_DONE /\ pc = "prime"
          /\ (conn_list[c].state # C_DONE /\ conn_list'[c].state = C_DONE) =>
                /\ pc \in {"dispatch", "drain"}
                /\ Armed(c)]_vars

\* the first connection's query is out while the second is still logging in
C15_Witness ==
    /\ pc = "loop"
    /\ Armed(1) /\ conn_list[1].state = C_QUERY_READ
    /\ Armed(2) /\ conn_list[2].state = C_CONNECT_WRITE

\* C16: a connect timeout is raised only when an armed connection is in a
\* connect state, connect_timeout > 0 and more than connect_timeout seconds
\* have passed since connect_time; a query timeout only when an armed
\* connection is in a query state, query_timeout > 0 and more than
\* query_timeout seconds have passed since query_time.
C16_TimeoutOnlyWhenOverdue ==
    /\ (pc = "catch" /\ err = "connect timeout") =>
          \E c \in Conns :
              /\ Armed(c)
              /\ conn_list[c].state \in {C_CONNECT_WRITE, C_CONNECT_READ}
              /\ cluster.config.connect_timeout > 0
              /\ now - conn_list[c].connect_time > cluster.config.connect_timeout
    /\ (pc = "catch" /\ err = "query timeout") =>
          \E c \in Conns :
              /\ Armed(c)
              /\ InQuery(conn_list[c].state)
              /\ cluster.config.query_timeout > 0
              /\ now - conn_list[c].query_time > cluster.config.query_timeout

\* a login that took two seconds against a connect_timeout of one
C16_Witness ==
    /\ pc = "catch" /\ err = "connect timeout"
    /\ conn_list[1].state = C_CONNECT_READ
    /\ now - conn_list[1].connect_time = 2

\* the launch loop is about to prime armed connection i, left Ready or Done
PrimesOldConn ==
    /\ pc = "prime" /\ i <= cluster.conn_count /\ Armed(i)
    /\ conn_list[i].state \in {C_READY, C_DONE}

\* C17: priming an armed connection left Ready or Done keeps the handle, with
\* state Ready, if and only if the handle is healthy, and connection_lifetime
\* is off or the connection is younger than it, and the last query is less
\* than 2 s old or the readability probe finds nothing; otherwise the handle
\* is closed, tuning cleared, and a new connect started: state ConnectWrite,
\* connect_time = now. (The probe and PQconnectStart themselves not failing.)
C17_KeepOrReconnect ==
    PrimesOldConn =>
        \A io \in {x \in SendIo : x.poll >= 0 /\ x.start # "nomem"} :
            LET old == conn_list[i]
                new == prepare_conn(old, now, cluster.config, io).conn
                keep == /\ io.status_ok
                        /\ \/ cluster.config.connection_lifetime <= 0
                           \/ now - old.connect_time < cluster.config.connection_lifetime
                        /\ \/ now - old.query_time < 2
                           \/ io.poll = 0
            IN  IF keep
                THEN /\ new.state = C_READY
                     /\ new.db = old.db
                     /\ new.connect_time = old.connect_time
                     /\ new.tuning = old.tuning
                ELSE /\ new.state = C_CONNECT_WRITE
                     /\ new.connect_time = now
                     /\ ~new.tuning

\* a connection idle for two seconds, with no lifetime set and connected
\* before this second: the probe decides
C17_Witness ==
    /\ PrimesOldConn
    /\ conn_list[i].state = C_DONE
    /\ cluster.config.connection_lifetime = 0
    /\ now - conn_list[i].query_time >= 2
    /\ conn_list[i].connect_time < now

\* connection c is the one whose query ran over query_timeout
QueryTimedOut(c) ==
    /\ Armed(c)
    /\ InQuery(conn_list[c].state)
    /\ now - conn_list[c].query_time > cluster.config.query_timeout

\* C18: when a call has been aborted by a query timeout, the connection that
\* timed out no longer holds its open handle.
C18_TimedOutConnClosed ==
    [][(pc = "catch_clean" /\ err = "query timeout" /\ pc' = "idle") =>
            \A c \in Conns : QueryTimedOut(c) => conn_list'[c].db = NULL]_vars

\* the element count of a split argument, a NULL counting as no element
CountOf(a) == IF a.isnull THEN 0 ELSE Len(a.elems)
SplitArgsRefused ==
    \/ \E col \in SplitCols(func) : ~func.args[col].isnull /\ func.args[col].ndim > 1
    \/ \E col \in SplitCols(func), d \in SplitCols(func) :
          CountOf(func.args[col]) # CountOf(func.args[d])
\* the call with every NULL split argument replaced by an empty array
NullsAsEmpty ==
    [func EXCEPT !.args =
        [col \in DOMAIN func.args |->
            IF IS_SPLIT_ARG(func, col) /\ func.args[col].isnull
            THEN [isnull |-> FALSE, ndim |-> 1, elems |-> <<>>]
            ELSE func.args[col]]]

\* C19: in a split call, split arrays of different element counts or of more
\* than one dimension make tagging fail with no connection tagged and nothing
\* submitted; a NULL split argument gives what an empty array gives.
C19_SplitArrayChecks ==
    [][/\ (pc = "tag" /\ SplitCols(func) # {}) =>
            /\ SplitArgsRefused =>
                  /\ pc' = "catch"
                  /\ err' \in {"split arrays must be of identical lengths",
                               "split multi-dimensional arrays are not supported"}
                  /\ conn_list' = conn_list
            /\ prepare_and_tag_partitions(conn_list, func) =
                  prepare_and_tag_partitions(conn_list, NullsAsEmpty)
       /\ pc \in {"catch", "catch_clean"} => SameLifecycle]_vars

\* a NULL split argument beside an array of one element or more: refused
C19_Witness ==
    /\ pc = "catch"
    /\ err = "split arrays must be of identical lengths"
    /\ func.split_args = <<TRUE, TRUE>>
    /\ func.args[2].isnull /\ Len(func.args[1].elems) > 0

\* the partition-map slots that reference connection c
SlotsOf(c) == {p \in 0..(cluster.part_count - 1) : cluster.part_map[p] = c}

\* the query of this call has been sent on connection c
QuerySent(c) ==
    /\ pc \in {"loop", "dispatch", "drain", "recheck", "review"}
    /\ \/ conn_list[c].state = C_DONE
       \/ InQuery(conn_list[c].state) /\ ~conn_list[c].tuning

\* C20: RUN ON ALL arms every connection the partition map references; a
\* connection that several slots reference is one connection: within a call
\* it is sent the query once (once the query is sent the connection does not
\* come back to Ready, the only state a query is sent from), it holds one
\* result when the call returns, and ret_total counts that result once.
C20_RunOnAllOncePerConn ==
    [][/\ (pc = "bind" /\ func.run_type = R_ALL) =>
              \A c \in Conns : SlotsOf(c) # {} => Armed(c)
       /\ \A c \in Conns :
              /\ Submits(c) => Armed(c) /\ ~QuerySent(c)
              /\ QuerySent(c) => conn_list'[c].state # C_READY
       /\ Returned =>
              /\ \A c \in Conns : Armed(c) => conn_list[c].res # NullRes
              /\ ret_total = ArmedRows(cluster.conn_count)]_vars

\* RUN ON ALL has tagged a cluster whose four slots share two connections
C20_Witness ==
    /\ pc = "bind" /\ func.run_type = R_ALL
    /\ \A c \in Conns : Armed(c) /\ Cardinality(SlotsOf(c)) = 2

ExactStarts == pc = "tag" /\ func.run_type = R_EXACT /\ SplitCols(func) = {}
ExactOutOfRange == func.exact_nr < 0 \/ func.exact_nr >= cluster.part_count

\* C21: in a RUN ON EXACT n call without split arguments, n < 0 or
\* n >= part_count makes tagging fail, and neither tagging nor the error exit
\* opens a connection or submits anything; otherwise tagging arms the
\* connection part_map[n] and no other.
C21_ExactPartition ==
    [][/\ ExactStarts =>
            IF ExactOutOfRange
            THEN /\ pc' = "catch"
                 /\ err' = "part number out of range"
                 /\ SameLifecycle
                 /\ \A c \in Conns : ~Armed(c)'
            ELSE /\ pc' = "bind"
                 /\ \A c \in Conns :
                       Armed(c)' <=> c = cluster.part_map[func.exact_nr]
       /\ (pc \in {"catch", "catch_clean"} /\ err = "part number out of range") =>
            SameLifecycle]_vars

\* RUN ON EXACT 1 on the map <<1, 2, 2, 1>>: connection 2 armed, 1 not
C21_Witness ==
    /\ pc = "bind" /\ func.run_type = R_EXACT /\ func.exact_nr = 1
    /\ Armed(2) /\ ~Armed(1)

NoneArmed == \A c \in Conns : ~Armed(c)
NoHashRows ==
    /\ pc = "tag" /\ func.run_type = R_HASH /\ SplitCols(func) = {}
    /\ func.fn_retset /\ Len(func.hashres[1]) = 0
InCall == pc \in {"bind", "prime", "loop", "dispatch", "drain", "recheck", "review"}
Untouched(c) ==
    /\ conn_list'[c].state = conn_list[c].state
    /\ conn_list'[c].db = conn_list[c].db
    /\ conn_list'[c].connect_time = conn_list[c].connect_time
    /\ conn_list'[c].query_time = conn_list[c].query_time
    /\ conn_list'[c].tuning = conn_list[c].tuning

\* C22: when the hash query of a set-returning function gives no row, tagging
\* succeeds with no connection armed; and a call in which no connection is
\* armed opens nothing, sends nothing, raises nothing and returns normally
\* with ret_total = 0.
C22_NoHashRowsEmptyResult ==
    [][/\ (NoHashRows
             /\ err' # "Nested PL/Proxy calls to the same cluster are not supported") =>
            (pc' = "bind" /\ NoneArmed')
       /\ (InCall /\ NoneArmed) =>
            /\ NoneArmed'
            /\ \A c \in Conns : Untouched(c)
            /\ pc' \in {"prime", "loop", "review", "idle"}
            /\ pc' = "idle" => (exit' = "ok" /\ ret_total' = 0)]_vars

\* a call has returned with no connection armed, the connection an earlier
\* call used still as that call left it
C22_Witness ==
    /\ Returned /\ NoneArmed /\ ret_total = 0
    /\ conn_list[1].state = C_DONE /\ conn_list[1].db # NULL

\* C23: a connection the call has not armed is untouched by it: its state,
\* handle, connect_time, query_time and tuning flag are changed by no step of
\* the call, it is not armed later in the call, and the dispatch loop passes
\* over it without consuming a poll entry or advancing it.
C23_UnarmedUntouched ==
    [][\A c \in Conns :
          /\ (pc \in {"idle", "tag", "catch", "catch_clean"} \/ ~Armed(c)) => Untouched(c)
          /\ (pc \notin {"idle", "tag"} /\ ~Armed(c)) => ~Armed(c)'
          /\ (pc = "dispatch" /\ i = c /\ ~Armed(c)) =>
                (pc' = "dispatch" /\ pf' = pf /\ i' = i + 1)]_vars

\* connection 1 served a call at second 1; connection 2, not armed by it,
\* still is as the call of second 0 left it
C23_Witness ==
    /\ Returned
    /\ Armed(1) /\ conn_list[1].query_time = 1
    /\ ~Armed(2) /\ conn_list[2].state = C_DONE
    /\ conn_list[2].connect_time = 0 /\ conn_list[2].query_time = 0

Tuning(c) == conn_list[c].tuning
TuningDone(c) == conn_list[c].state = C_READY /\ Tuning(c)

\* C24: while the tuning query runs on a connection its tuning flag stays
\* set; the end of its results leaves the connection Ready, never Done, with
\* no result held; the next send_query on that connection, which the recheck
\* loop makes, either submits the real query with tuning cleared or raises an
\* error, and never sends a second tuning query: if the encodings still
\* differ the call fails.
C24_TuningThenQuery ==
    [][\A c \in Conns :
          /\ (InQuery(conn_list[c].state) /\ Tuning(c) /\ InQuery(conn_list[c].state'))
                => Tuning(c)'
          /\ (pc = "drain" /\ i = c /\ Tuning(c)) =>
                /\ conn_list[c].state' \in {C_QUERY_READ, C_READY}
                /\ conn_list[c].state' = C_READY =>
                      (conn_list[c].res' = NullRes /\ Tuning(c)')
          /\ TuningDone(c) => ~(InQuery(conn_list[c].state') /\ Tuning(c)')
          /\ (pc = "recheck" /\ i = c /\ Armed(c) /\ TuningDone(c)) =>
                \/ Submits(c)
                \/ pc' = "catch"
                      /\ err' \in {"does not seem to apply", "PQsendQueryParams", "PQflush"}]_vars

\* the tuning query had run to its end, and the encodings still differed
\* when the query was to be sent
C24_Witness ==
    /\ pc = "catch" /\ err = "does not seem to apply"
    /\ \E c \in Conns : Armed(c) /\ TuningDone(c) /\ conn_list[c].res = NullRes

\* what another_result makes of result r on the connection being drained
Pulled(r) == another_result(conn_list[i], r)
DrainPolicy(r) ==
    LET held == conn_list[i].res
    IN  IF r.status = PGRES_COMMAND_OK
            THEN Pulled(r).err = "none" /\ Pulled(r).conn = conn_list[i]
        ELSE IF r.status = PGRES_TUPLES_OK
            THEN IF held # NullRes THEN Pulled(r).err = "double result?"
                 ELSE Pulled(r).err = "none" /\ Pulled(r).conn.res = r
        ELSE IF r.status = PGRES_FATAL_ERROR THEN Pulled(r).err = "remote error"
        ELSE Pulled(r).err = "Unexpected result type"

\* C25: while a connection in C_QUERY_READ is drained, a command-OK result
\* is dropped and leaves the connection as it was, a tuple result is kept if
\* none is held and is an error (double result) if one is held, a
\* fatal-error result is a remote error, any other result is an error; every
\* such error aborts the call, and a drain step that does not abort changes
\* the held result only from none to a tuple result.
C25_DrainPolicies ==
    [][pc = "drain" =>
          /\ conn_list[i].state = C_QUERY_READ
          /\ \A r \in ResultsFor(conn_list[i]) \ {NullRes} : DrainPolicy(r)
          /\ err' # "none" => pc' = "catch"
          /\ pc' # "catch" =>
                \/ conn_list'[i].res = conn_list[i].res
                \/ /\ conn_list[i].res = NullRes
                   /\ conn_list'[i].res.status = PGRES_TUPLES_OK]_vars

\* a second tuple result has come on a connection that held one
C25_Witness ==
    /\ pc = "catch" /\ err = "double result?"
    /\ \E c \in Conns : Armed(c) /\ conn_list[c].res.status = PGRES_TUPLES_OK

Connecting(st) == st \in {C_CONNECT_WRITE, C_CONNECT_READ}

\* what handle_conn makes of answer ev on the connection being advanced
Advanced(ev) == handle_conn(conn_list[i], ev)
AdvancePolicy(ev) ==
    LET st == conn_list[i].state
        to == Advanced(ev).conn.state
        ok == Advanced(ev).err = "none"
    IN  IF Connecting(st) THEN
            IF ev.poll = "PGRES_POLLING_WRITING" THEN ok /\ to = C_CONNECT_WRITE
            ELSE IF ev.poll = "PGRES_POLLING_READING" THEN ok /\ to = C_CONNECT_READ
            ELSE IF ev.poll = "PGRES_POLLING_OK" THEN ok /\ to = C_READY
            ELSE ~ok /\ to = st
        ELSE IF st = C_QUERY_WRITE THEN
            IF ev.flush > 0 THEN ok /\ to = C_QUERY_WRITE
            ELSE IF ev.flush = 0 THEN ok /\ to = C_QUERY_READ
            ELSE ~ok
        ELSE TRUE

\* the state changes an advance step may make
AdvanceMoves(c) ==
    LET st == conn_list[c].state
        to == conn_list[c].state'
    IN  \/ to = st
        \/ Connecting(st) /\ to \in {C_CONNECT_WRITE, C_CONNECT_READ, C_READY}
        \/ st = C_QUERY_WRITE /\ to = C_QUERY_READ
        \/ st = C_QUERY_READ /\ to = C_DONE /\ ~Tuning(c)
        \/ st = C_QUERY_READ /\ to = C_READY /\ Tuning(c)

\* C26: the advance step (the dispatch loop of poll_conns with handle_conn
\* and its drain loop) moves the connection it handles only from a Connect
\* state to ConnectWrite, ConnectRead or Ready as PQconnectPoll says (FAILED
\* or ACTIVE fail the call), from QueryWrite to QueryWrite or QueryRead as
\* PQflush says, and from QueryRead to Done, or to Ready when tuning; it
\* moves no other connection.
C26_AdvanceTransitions ==
    [][(pc = "dispatch" \/ pc = "drain") =>
          /\ \A c \in Conns :
                /\ AdvanceMoves(c)
                /\ c # i => conn_list[c].state' = conn_list[c].state
          /\ (pc = "dispatch" /\ i \in Conns /\ Armed(i) /\ IoState(conn_list[i].state)) =>
                \A ev \in HandleEv : AdvancePolicy(ev)
          /\ err' # "none" => pc' = "catch"]_vars

\* the login on a connection has finished in the dispatch loop, which has
\* passed on; the query is yet to be sent
C26_Witness ==
    /\ pc = "dispatch"
    /\ \E c \in Conns :
          /\ c < i /\ Armed(c)
          /\ conn_list[c].state = C_READY /\ ~Tuning(c)

Polled(c) == Armed(c) /\ IoState(conn_list[c].state)
\* the entries of the pollfd array that wait on connection c
EntriesOf(q, c) == {k \in DOMAIN q : q[k].fd = c}

\* C27: poll_conns waits on the socket of every armed connection in an I/O
\* state, once, for input in a Read state and for output in a Write state,
\* and on no other socket; its second loop passes over a connection that is
\* unarmed or in None, Ready or Done without advancing it or using up an
\* entry, finds at every other connection the entry made for it, and changes
\* a connection only if that entry reported an event.
C27_PollOnlyArmedInIo ==
    [][/\ (pc = "loop" /\ pc' = "dispatch") =>
            \A c \in Conns :
               /\ Polled(c) => /\ Cardinality(EntriesOf(pfd', c)) = 1
                               /\ \A k \in EntriesOf(pfd', c) :
                                     pfd'[k].events =
                                         IF conn_list[c].state \in {C_CONNECT_READ, C_QUERY_READ}
                                         THEN "POLLIN" ELSE "POLLOUT"
               /\ ~Polled(c) => EntriesOf(pfd', c) = {}
       /\ (pc = "dispatch" /\ i \in Conns) =>
            IF Polled(i)
            THEN /\ pf \in DOMAIN pfd /\ pfd[pf].fd = i
                 /\ ~pfd[pf].revents =>
                       (conn_list' = conn_list /\ pc' = "dispatch" /\ pf' = pf + 1)
            ELSE conn_list' = conn_list /\ pc' = "dispatch" /\ pf' = pf
       /\ pc = "drain" => (Polled(i) /\ pfd[pf].fd = i /\ pfd[pf].revents)
       /\ (pc = "dispatch" \/ pc = "drain") =>
            \A c \in Conns : c # i => conn_list'[c] = conn_list[c]]_vars

\* poll() has reported an event for connection 2 and none for connection 1,
\* both armed and waiting
C27_Witness ==
    /\ pc = "dispatch" /\ i = 1
    /\ Polled(1) /\ Polled(2)
    /\ Len(pfd) = 2 /\ ~pfd[1].revents /\ pfd[2].revents
    /\ pfd[1].events = "POLLOUT" /\ pfd[2].events = "POLLIN"

\* the head of while (pending), with a cancel request pending
CancelAtLoopHead == pc = "loop" /\ pending > 0 /\ QueryCancelPending

\* C28: at the head of every iteration of the poll loop, also the iterations
\* that follow a wait that expired or was interrupted, a pending cancel is
\* honored before anything else: no wait is entered, no second passes and no
\* connection is advanced before the cancel error is raised.
C28_CancelCheckedEveryIteration ==
    [][CancelAtLoopHead =>
          /\ pc' = "catch"
          /\ errcode' = ERRCODE_QUERY_CANCELED
          /\ ~QueryCancelPending'
          /\ now' = now
          /\ conn_list' = conn_list]_vars

\* the cancel was raised a second after the query was sent, its result not
\* yet complete
C28_Witness ==
    /\ pc = "catch" /\ errcode = ERRCODE_QUERY_CANCELED
    /\ now = 1
    /\ Armed(1) /\ conn_list[1].state = C_QUERY_READ /\ conn_list[1].query_time = 0

\* parameter n of connection c after the step
ParamAfter(c, n) == conn_list'[c].params[n]

\* C29: parameter binding gives every armed connection, for every
\* placeholder n with idx = arg_lookup[n]: (null, 0, 0) if the caller's
\* argument idx is NULL; else, if idx is a split argument, the encoding of
\* the connection's own split_params[idx]; else the encoding of the
\* caller's value, the same value, length and format on every armed
\* connection. The parameters of an unarmed connection are left alone.
C29_BoundParameters ==
    [][pc = "bind" =>
          \A c \in Conns :
             IF ~Armed(c) THEN conn_list'[c].params = conn_list[c].params
             ELSE \A n \in DOMAIN func.arg_lookup :
                     LET idx == func.arg_lookup[n]
                         bin == ~cluster.config.disable_binary
                     IN  IF func.args[idx].isnull THEN ParamAfter(c, n) = NullParam
                         ELSE IF IS_SPLIT_ARG(func, idx)
                             THEN ParamAfter(c, n) =
                                    plproxy_send_type(conn_list[c].split_params[idx], bin)
                         ELSE /\ ParamAfter(c, n) =
                                    plproxy_send_type(ArgDatum(func.args[idx]), bin)
                              /\ \A d \in Conns :
                                    Armed(d) => ParamAfter(d, n) = ParamAfter(c, n)]_vars

\* two armed connections after binding "$1 = second argument, $2 = first":
\* the same encoding of the fixed argument, each its own part of the split one
C29_Witness ==
    /\ pc = "prime"
    /\ \E c \in Conns, d \in Conns :
          /\ c # d /\ Armed(c) /\ Armed(d)
          /\ Len(conn_list[c].params) = 2 /\ Len(conn_list[d].params) = 2
          /\ conn_list[c].params[1] = conn_list[d].params[1]
          /\ conn_list[c].params[1] # NullParam
          /\ conn_list[c].params[1].value[2].elems # <<>>
          /\ conn_list[c].params[2] # conn_list[d].params[2]
          /\ conn_list[c].params[2].value[2] = conn_list[c].split_params[1]

Least(S) == CHOOSE x \in S : \A y \in S : x <= y

\* the elements (1-based) whose run condition selects connection c, in the
\* element-by-element path
ElementsOf(c) ==
    {n \in 1..SplitArrayLen(func) :
        IF func.run_type = R_HASH THEN Routes(n, c)
        ELSE IF func.run_type = R_ALL THEN SlotsOf(c) # {}
        ELSE IF func.run_type = R_EXACT THEN c = cluster.part_map[func.exact_nr]
        ELSE c = cluster.part_map[MaskHash(func.rand[n])]}
\* the rows of the one-query split hash that select connection c
RowsOf(c) ==
    {k \in DOMAIN func.splitrows :
        cluster.part_map[MaskDatum(func.splitrows[k].hash, func.htype)] = c}
\* the elements routed to connection c by the split path the call takes
RoutedTo(c) ==
    IF func.new_split THEN {func.splitrows[k].idx.v : k \in RowsOf(c)}
    ELSE ElementsOf(c)
\* the element routed to connection c last
LastRouted(c) ==
    IF func.new_split THEN func.splitrows[Max(RowsOf(c))].idx.v
    ELSE Max(ElementsOf(c))

\* C30 as stated: in a split call, after tagging, the run_tag of each armed
\* connection is the index of the first element that routed to it.
C30_RunTagFirstRouted ==
    SplitTagged =>
        \A c \in Conns : Armed(c) => conn_list[c].run_tag = Least(RoutedTo(c))

\* C30, amended: in a split call, after tagging, a connection is armed if and
\* only if some element routed to it, and its run_tag is the index of the
\* element that routed to it last: the highest such index in the
\* element-by-element path, the index of the last row that selected the
\* connection in the one-query path.
C30_RunTagLastRouted ==
    SplitTagged =>
        \A c \in Conns :
            /\ Armed(c) <=> RoutedTo(c) # {}
            /\ Armed(c) => conn_list[c].run_tag = LastRouted(c)

\* elements 1 and 2 both routed to one connection, by the element-by-element
\* path: its run_tag is 2
C30_Witness ==
    /\ SplitTagged /\ func.run_type = R_HASH /\ ~func.new_split
    /\ \E c \in Conns :
          /\ ElementsOf(c) = {1, 2}
          /\ conn_list[c].run_tag = 2
          /\ Len(conn_list[c].bstate[1]) = 2

\* C31: in the one-query split path, after tagging, every armed connection
\* has had appended to the accumulator of every split argument one element
\* for every index i that some row routed to it, and no more: a second row
\* with the same (partition, i) has appended nothing.
C31_OncePerPartitionIndex ==
    (SplitTagged /\ func.new_split) =>
        \A c \in Conns :
            Armed(c) =>
                \A col \in SplitCols(func) :
                    Len(SubArray(c, col)) = Cardinality(RoutedTo(c))

\* the tuning query is submitted on connection c
TuneSubmits(c) ==
    /\ conn_list[c].state \in {C_READY, C_DONE}
    /\ InQuery(conn_list'[c].state)
    /\ conn_list'[c].tuning

\* C32: the remote query is submitted on a connection only if it is armed and
\* has not been sent the query in this call, and once sent the connection
\* stays sent (writing, reading or Done) until the call ends, so the query
\* goes out at most once; an armed connection enters the poll loop in an
\* I/O state and becomes Done only from reading the answer to the query, so
\* a normal return means the query went out on every armed connection; the
\* tuning query goes out only with the tuning flag clear and before the
\* query, and the flag is cleared only by submitting the query or by the
\* drop of the connection when it is primed.
C32_QueryOncePerConn ==
    [][\A c \in Conns :
          /\ Submits(c) =>
                (Armed(c) /\ ~QuerySent(c) /\ (pc = "prime" \/ pc = "recheck"))
          /\ TuneSubmits(c) =>
                (Armed(c) /\ ~QuerySent(c) /\ ~Tuning(c)
                    /\ (pc = "prime" \/ pc = "recheck"))
          /\ (QuerySent(c) /\ Armed(c) /\ pc' # "idle" /\ pc' # "catch") =>
                (QuerySent(c))'
          /\ (pc = "prime" /\ pc' = "loop" /\ Armed(c)) => IoState(conn_list'[c].state)
          /\ (QuerySent(c)' /\ ~QuerySent(c) /\ pc # "prime" /\ Armed(c)) => Submits(c)
          /\ (Tuning(c) /\ ~Tuning(c)') => (Submits(c) \/ pc = "prime")
          /\ (Returned' /\ Armed(c)) =>
                (conn_list'[c].state = C_DONE /\ ~conn_list'[c].tuning)]_vars

\* the query has been sent and is still being written, the call back at the
\* head of its loop
C32_Witness ==
    /\ pc = "loop"
    /\ \E c \in Conns :
          Armed(c) /\ QuerySent(c) /\ conn_list[c].state = C_QUERY_WRITE

\* connection c is about to be primed in the state an aborted call left it in
LeftInIo(c) ==
    /\ pc = "prime"
    /\ i = c
    /\ Armed(c)
    /\ IoState(conn_list[c].state)

\* C33: a connection that an aborted call left connecting or in a query is
\* not reused by the call that arms it next: the prime step closes it and
\* starts a new connect, so that it is in ConnectWrite with a fresh handle,
\* tuning cleared, connect_time now and no result held, or, when the connect
\* cannot be started, closed with the call failed; no query is submitted on
\* it in that step.
C33_StaleIoDropped ==
    [][\A c \in Conns :
          LeftInIo(c) =>
              /\ ~conn_list'[c].tuning
              /\ conn_list'[c].res = NullRes
              /\ conn_list'[c].connect_time = now
              /\ ~InQuery(conn_list'[c].state)
              /\ \/ conn_list'[c].state = C_CONNECT_WRITE /\ conn_list'[c].db = "open"
                 \/ /\ conn_list'[c].state = C_NONE
                    /\ conn_list'[c].db = NULL
                    /\ pc' = "catch"]_vars

\* a call is about to prime a connection still reading the answer to the
\* tuning query of an earlier call
C33_Witness ==
    \E c \in Conns :
        LeftInIo(c) /\ conn_list[c].state = C_QUERY_READ /\ conn_list[c].tuning

\* the call is inside remote_execute, past the prime step
InLoop == pc \in {"loop", "dispatch", "drain", "recheck", "review"}

\* C34: while a call is in its poll loop, an armed connection that is Done
\* stays Done and holds the same result after every step, whatever the step
\* does to other connections; and a connection in Done never has the tuning
\* flag set.
C34_DoneIsStable ==
    [][\A c \in Conns :
          /\ (conn_list[c].state = C_DONE => ~conn_list[c].tuning)
          /\ (conn_list'[c].state = C_DONE => ~conn_list'[c].tuning)
          /\ (InLoop /\ Armed(c) /\ conn_list[c].state = C_DONE) =>
                /\ conn_list'[c].state = C_DONE
                /\ conn_list'[c].res = conn_list[c].res]_vars

\* one connection is Done with its result while the call takes results from
\* another
C34_Witness ==
    /\ pc = "drain"
    /\ \E c \in Conns :
          /\ c # i
          /\ Armed(c)
          /\ conn_list[c].state = C_DONE
          /\ conn_list[c].res # NullRes
          /\ conn_list[i].res # NullRes

\* the members of a set of indices in ascending order
RECURSIVE Ascending(_)
Ascending(S) ==
    IF S = {} THEN <<>>
    ELSE <<Least(S)>> \o Ascending(S \ {Least(S)})

\* the elements of an input array at the given indices
Picked(a, idxs) == [k \in 1..Len(idxs) |-> a.elems[idxs[k]]]

\* C35: in a split call, after tagging, every armed connection has a set of
\* input indices such that the sub-array of every split argument is the
\* argument's elements at these indices in ascending order: the sub-arrays
\* have one length, their k-th elements come from one input index, and each
\* is a subsequence of its input array.
C35_SubArraysOrdered ==
    SplitTagged =>
        \A c \in Conns :
            Armed(c) =>
                \E S \in SUBSET (1..SplitArrayLen(func)) :
                    \A col \in SplitCols(func) :
                        SubArray(c, col) = Picked(func.args[col], Ascending(S))

\* the call is in a stage before its prime step, or in the handling of an
\* error raised in such a stage (the call is dropped once its parameters
\* are bound)
BeforePrime ==
    \/ pc = "idle"
    \/ pc = "tag"
    \/ pc = "bind"
    \/ (pc = "catch" \/ pc = "catch_clean") /\ func.run_type # "none"

\* C36: a step taken before the prime step, or in handling an error raised
\* before the prime step, leaves the lifecycle state, the handle, connect_time
\* and query_time of every connection as they were.
C36_EarlyErrorKeepsConns ==
    [][\A c \in Conns :
          BeforePrime =>
              /\ conn_list'[c].state = conn_list[c].state
              /\ conn_list'[c].db = conn_list[c].db
              /\ conn_list'[c].connect_time = conn_list[c].connect_time
              /\ conn_list'[c].query_time = conn_list[c].query_time]_vars

\* a call fails while tagging, with a connection still in a query that an
\* earlier call sent at a later time than it connected
C36_Witness ==
    /\ pc = "catch"
    /\ func.run_type # "none"
    /\ \E c \in Conns :
          /\ InQuery(conn_list[c].state)
          /\ conn_list[c].query_time > conn_list[c].connect_time
          /\ conn_list[c].connect_time > 0

\* the non-negative residue modulo n of the number a hash datum stands for,
\* hi * 2^32 + (v modulo 2^32), computed term by term
Residue(val, n) ==
    LET u == ToUint32(val.v)
    IN  ((val.hi % n) * (((Limb % n) * (Limb % n)) % n)
            + (u.hi % n) * (Limb % n)
            + (u.lo % n)) % n

\* the hash values of the rows of the call being tagged
HashedRows ==
    IF func.new_split THEN {func.splitrows[k].hash : k \in DOMAIN func.splitrows}
    ELSE {func.hashres[1][k] : k \in DOMAIN func.hashres[1]}

\* C37: for a hash value of type int2, int4 or int8, negative or not, within
\* 32 bits or not, the partition-map index computed from it is in
\* 0..part_count - 1 and is the non-negative residue of the value modulo
\* part_count, and the connections armed by a hash call, plain or one-query
\* split, are those of the residues of its hash values.
C37_HashIndexIsResidue ==
    (pc = "bind" /\ func.run_type = R_HASH) =>
        /\ \A h \in HashedRows :
              /\ MaskDatum(h, func.htype) \in 0..(cluster.part_count - 1)
              /\ MaskDatum(h, func.htype) = Residue(h, cluster.part_count)
        /\ \A c \in Conns :
              Armed(c) <=>
                  \E h \in HashedRows :
                      cluster.part_map[Residue(h, cluster.part_count)] = c

\* a one-query split call on eight partitions whose int8 hash is below
\* -2^31 and has residue 5: the connection of partition 5 is armed
C37_Witness ==
    /\ pc = "bind"
    /\ cluster.part_count = 8
    /\ func.new_split
    /\ func.htype = "int8"
    /\ func.splitrows[1].hash = Int8Datum(-2147483647, -3)
    /\ Armed(6)

\* the components of a version string: the major component is what stands
\* before the first dot, the minor component what stands between the first
\* dot and the second (or the end); a string without a dot has no minor
DotsOf(s) == {k \in 1..Len(s) : s[k] = "."}
HasMinor(s) == DotsOf(s) # {}
Major(s) == IF HasMinor(s) THEN SubSeq(s, 1, Least(DotsOf(s)) - 1) ELSE s
Minor(s) == Major(SubSeq(s, Least(DotsOf(s)) + 1, Len(s)))
SameBranch(a, b) ==
    /\ Major(a) = Major(b)
    /\ HasMinor(a) = HasMinor(b)
    /\ HasMinor(a) => Minor(a) = Minor(b)

\* C38: a step that submits a query on a connection, or changes its
\* same_ver, leaves same_ver true exactly when the version string the server
\* reports and the version string of the local build have the same major
\* and the same minor component, whatever follows the second dot.
C38_SameVerIsSameBranch ==
    [][\A c \in Conns :
          (Submits(c) \/ TuneSubmits(c)
              \/ conn_list'[c].same_ver # conn_list[c].same_ver) =>
              \A v \in cluster.server_versions :
                  conn_list'[c].same_ver <=> SameBranch(v, cluster.pg_version)]_vars

\* a query is out on a connection whose server reports "9.1" to a build of
\* version 9.1.3, with same_ver set
C38_Witness ==
    /\ cluster.pg_version = <<"9", ".", "1", ".", "3">>
    /\ cluster.server_versions = {<<"9", ".", "1">>}
    /\ InQuery(conn_list[1].state)
    /\ conn_list[1].same_ver

\* the connections the dispatch pass has still to examine that wait on their
\* socket, in the order of conn_list
Waiting == PollSet(conn_list, i)

\* C39: at every point of the dispatch pass, the readiness entries not yet
\* used are, in order, the entries of the connections not yet examined that
\* are armed and in an I/O state, each with the event of its connection's
\* state: the entry examined for a connection is the one built for it,
\* whatever the connections before it have become.
C39_EntriesStayAligned ==
    (pc = "dispatch" \/ pc = "drain") =>
        /\ Len(pfd) - pf + 1 = Len(Waiting)
        /\ \A k \in 1..Len(Waiting) :
              /\ pfd[pf + k - 1].fd = Waiting[k]
              /\ pfd[pf + k - 1].events = poll_event(conn_list[Waiting[k]].state)

\* the first connection has been advanced out of its I/O state on its event,
\* and the second, still waiting, is next with the second entry
C39_Witness ==
    /\ pc = "dispatch" /\ i = 2
    /\ Armed(1) /\ conn_list[1].state \in {C_READY, C_DONE}
    /\ Len(pfd) = 2 /\ pfd[1].fd = 1 /\ pfd[1].revents
    /\ Polled(2) /\ pf = 2

====
